---- MODULE Spec2Model ----
(***************************************************************************)
(* Model of the MedVision AI back end: the recorded-video pipeline         *)
(* (tasks.py, routes_video.py, video_processor.py), the database rows it   *)
(* writes (models.py) and the live-session path (gi.py, timeline_store.py).*)
(*                                                                         *)
(* Model text is a string; the regular expressions of the code are         *)
(* matched character by character.                                         *)
(***************************************************************************)
EXTENDS Integers, Sequences, FiniteSets, TLC

\* ------------------------------------------------------------------ bounds

\* The most frames sampling yields for one uploaded video.
MaxFrames == 2

\* The wall clock runs from tick 0 to tick MaxClock, TicksPerSecond ticks to
\* the second (the clock of the program counts microseconds).
MaxClock == 1
TicksPerSecond == 2

\* generate_summary is called at most MaxCalls times on a session whose rows
\* are MaxPrefix rows at most, then MaxHigh, MaxMedium, MaxLow rows at most
\* of each risk level.
MaxCalls == 2
MaxPrefix == 2
MaxHigh == 11
MaxMedium == 2
MaxLow == 7

\* The most entries the live buffer holds.
MaxTimeline == 2

\* The most clears of the live buffer while threads add to it.
MaxClears == 2

\* The most frames a video source holds.
MaxSourceFrames == 900

\* analyze_frames_batch alone: the unanalyzed frames of a session at most.
MaxBatchFrames == 50

\* --------------------------------------------------------- program constants

\* VideoProcessor.__init__: batch_size default.
DefaultBatchSize == 10

\* extract_frames commits (and reports progress) every 10 sampled frames.
CommitEvery == 10

\* Values of the BATCH_SIZE environment variable a Celery worker may run with.
BatchSizeEnv == {1, DefaultBatchSize}

Runs == {"r1", "r2"}

\* Identifiers: "s1" is the session an upload creates; "live1" and "live2"
\* are the uuids start_live_session draws.
RecordedIds == {"s1"}
LiveIds == {"live1", "live2"}
SessionIds == RecordedIds \cup LiveIds

NONE == "none"

\* ------------------------------------------------------------------- text
\* Text is a string; positions count characters from 1.

Char(s, i) == SubSeq(s, i, i)

\* s[i:]
From(s, i) == SubSeq(s, i, Len(s))

\* s starts with lit at position i.
StartsAt(s, i, lit) ==
    /\ i + Len(lit) - 1 <= Len(s)
    /\ SubSeq(s, i, i + Len(lit) - 1) = lit

\* lit in s
Contains(s, lit) == \E i \in 1..(Len(s) - Len(lit) + 1) : StartsAt(s, i, lit)

UpperCase == "ABCDEFGHIJKLMNOPQRSTUVWXYZ"
LowerCase == "abcdefghijklmnopqrstuvwxyz"

LowerChar(c) ==
    IF \E k \in 1..Len(UpperCase) : Char(UpperCase, k) = c
    THEN Char(LowerCase, CHOOSE k \in 1..Len(UpperCase) : Char(UpperCase, k) = c)
    ELSE c

\* The lower case of s[a..b], by halves.
RECURSIVE LowerRange(_, _, _)
LowerRange(s, a, b) ==
    IF a > b THEN ""
    ELSE IF a = b THEN LowerChar(Char(s, a))
    ELSE LowerRange(s, a, (a + b) \div 2) \o LowerRange(s, (a + b) \div 2 + 1, b)

\* s.lower()
ToLower(s) == LowerRange(s, 1, Len(s))

\* The characters \s matches.
IsSpace(c) == c \in {" ", "\n", "\t", "\r"}

\* s.strip()
Strip(s) ==
    LET ink == { i \in 1..Len(s) : ~IsSpace(Char(s, i)) } IN
    IF ink = {} THEN ""
    ELSE SubSeq(s, CHOOSE i \in ink : \A j \in ink : i <= j,
                   CHOOSE i \in ink : \A j \in ink : i >= j)

\* The number of \s characters of s from position i on.
WsRun(s, i) ==
    LET stops == { j \in i..(Len(s) + 1) : j = Len(s) + 1 \/ ~IsSpace(Char(s, j)) } IN
    (CHOOSE j \in stops : \A k \in stops : j <= k) - i

\* $ : the end of s, or the place before a newline that ends s.
AtEnd(s, i) == i = Len(s) + 1 \/ (i = Len(s) /\ Char(s, i) = "\n")

\* Regular expressions of the re module, as sequences of elements:
\*   Lit(x)   the characters x
\*   Ws       \s*   (greedy)
\*   Ws1      \s+   (greedy)
\*   Cap      (.*?) with DOTALL (lazy), a group
\*   Alt(p,q) (?:p|q)
\*   Opt(p)   (?:p)?  (greedy)
\*   NlEnd    (?:\n|$)
\*   Stop(L)  (?=l1|l2|...|$) for the literals L
El == [k |-> "", s |-> "", p |-> <<>>, q |-> <<>>, a |-> {}]
Lit(x) == [El EXCEPT !.k = "lit", !.s = x]
Ws == [El EXCEPT !.k = "ws"]
Ws1 == [El EXCEPT !.k = "ws1"]
Cap == [El EXCEPT !.k = "cap"]
Alt(x, y) == [El EXCEPT !.k = "alt", !.p = x, !.q = y]
Opt(x) == Alt(x, <<>>)
NlEnd == [El EXCEPT !.k = "nlend"]
Stop(L) == [El EXCEPT !.k = "stop", !.a = L]

\* The positions of s: a match starts at one and ends before one.
Positions(s) == 1..(Len(s) + 1)

Min(S) == CHOOSE x \in S : \A y \in S : x <= y

Max(S) == CHOOSE x \in S : \A y \in S : x >= y

\* Element e (not an alternative) can match s[i..j-1].
Reaches(e, s, i, j) ==
    CASE e.k = "lit" -> j = i + Len(e.s) /\ StartsAt(s, i, e.s)
      [] e.k = "ws" -> j >= i /\ \A k \in i..(j - 1) : IsSpace(Char(s, k))
      [] e.k = "ws1" -> j > i /\ \A k \in i..(j - 1) : IsSpace(Char(s, k))
      [] e.k = "cap" -> j >= i
      [] e.k = "nlend" -> (j = i + 1 /\ StartsAt(s, i, "\n")) \/ (j = i /\ AtEnd(s, i))
      [] e.k = "stop" -> j = i /\ (AtEnd(s, i) \/ \E l \in e.a : StartsAt(s, i, l))

\* The positions from which pat matches s and ends before a position of T.
\* A pattern of several elements is split in halves.
RECURSIVE CanStart(_, _, _)
CanStart(pat, s, T) ==
    IF T = {} \/ pat = <<>> THEN T
    ELSE IF Len(pat) = 1
         THEN LET e == pat[1] IN
              IF e.k = "alt" THEN CanStart(e.p, s, T) \cup CanStart(e.q, s, T)
              ELSE { i \in Positions(s) : \E j \in T : Reaches(e, s, i, j) }
    ELSE LET h == Len(pat) \div 2 IN
         CanStart(SubSeq(pat, 1, h), s, CanStart(SubSeq(pat, h + 1, Len(pat)), s, T))

\* The match of pat on s from position i that the backtracking search of the
\* re module finds when what follows pat matches from the positions T:
\* << position after the match, groups >>, a group being << first, last >>;
\* <<>> when there is none.  At each element the search takes the first of
\* its alternatives, in the order of the re module, from which the rest can
\* still match: the longest run for \s* and \s+, the shortest group for
\* (.*?), the left branch of (?:p|q), the newline of (?:\n|$).
RECURSIVE Run(_, _, _, _)
RECURSIVE RunRight(_, _, _, _)

\* a, the match of the left half, followed by b, the match of the right half.
Joined(a, b) == IF b = <<>> THEN <<>> ELSE << b[1], a[2] \o b[2] >>

RunRight(a, right, s, T) ==
    IF a = <<>> THEN <<>> ELSE Joined(a, Run(right, s, a[1], T))

Run(pat, s, i, T) ==
    IF T = {} THEN <<>>
    ELSE IF pat = <<>> THEN (IF i \in T THEN << i, <<>> >> ELSE <<>>)
    ELSE IF Len(pat) = 1
         THEN LET e == pat[1]
                  ends == { j \in T : Reaches(e, s, i, j) }
                  left == Run(e.p, s, i, T) IN
              IF e.k = "alt" THEN (IF left # <<>> THEN left ELSE Run(e.q, s, i, T))
              ELSE IF ends = {} THEN <<>>
              ELSE IF e.k = "cap" THEN << Min(ends), << <<i, Min(ends) - 1>> >> >>
              ELSE << Max(ends), <<>> >>
    ELSE RunRight(Run(SubSeq(pat, 1, Len(pat) \div 2), s, i,
                      CanStart(SubSeq(pat, Len(pat) \div 2 + 1, Len(pat)), s, T)),
                  SubSeq(pat, Len(pat) \div 2 + 1, Len(pat)), s, T)

\* pattern.match at position i: << position after, groups >>, or <<>>.
Match(pat, s, i) == Run(pat, s, i, Positions(s))

\* The match that starts at the leftmost of the positions starts, as
\* << start, position after, groups >>, or <<>>.
MatchAtFirst(pat, s, starts) ==
    IF starts = {} THEN <<>>
    ELSE LET m == Run(pat, s, Min(starts), Positions(s)) IN << Min(starts), m[1], m[2] >>

\* pattern.search from position i on.
SearchFrom(pat, s, i) ==
    MatchAtFirst(pat, s, { p \in CanStart(pat, s, Positions(s)) : p >= i })

\* re.sub(pat, repl, s) from position i on: low is the text matched on (s, or
\* its lower case under IGNORECASE).  No pattern here matches the empty string.
RECURSIVE SubFrom(_, _, _, _, _)
SubFrom(pat, repl, low, s, i) ==
    LET m == SearchFrom(pat, low, i) IN
    IF m = <<>> THEN From(s, i)
    ELSE SubSeq(s, i, m[1] - 1) \o repl \o SubFrom(pat, repl, low, s, m[2])

ReSubIgnoreCase(pat, repl, s) ==
    LET low == ToLower(s) IN
    IF low = "" THEN "" ELSE SubFrom(pat, repl, low, s, 1)

ReSub(pat, repl, s) == SubFrom(pat, repl, s, s, 1)

\* gi.py, clean_medgemma_output: what starts a prompt echo; it is removed up
\* to the next label or the end.
PromptStarts ==
    << "you are medgemma", "analyze this", "return only structured output",
       "[system]", "do not provide", "be cautious", "assisting an endoscopist",
       "<start_of_image>" >>

PromptPattern(start) ==
    << Lit(start), Cap, Stop({"finding:", "location:", "risk level:"}) >>

\* The loop over PromptStarts[a..b], in order, by halves.
RECURSIVE RemovePrompts(_, _, _)
RemovePrompts(s, a, b) ==
    IF s = "" \/ a > b THEN s
    ELSE IF a = b THEN ReSubIgnoreCase(PromptPattern(PromptStarts[a]), "", s)
    ELSE RemovePrompts(RemovePrompts(s, a, (a + b) \div 2), (a + b) \div 2 + 1, b)

EmptyStructure ==
    << Lit("finding:"), Ws, Lit("\n"), Ws, Lit("location:"), Ws, Lit("\n"), Ws,
       Lit("risk level (low/medium/high):"), Ws, Lit("\n"), Ws,
       Lit("suggested next step:"), Ws, Lit("\n") >>

EmptyStructureInline ==
    << Lit("finding:"), Ws, Lit("location:"), Ws,
       Lit("risk level (low/medium/high):"), Ws, Lit("suggested next step:"), Ws >>

\* s without the match m at its start.
CutAt(s, m) == IF m # <<>> THEN From(s, m[1]) ELSE s

\* ^pattern : only a match at the start of s is replaced.
SubAtStart(pat, s) == IF s = "" THEN "" ELSE CutAt(s, Match(pat, ToLower(s), 1))

BlankLines == << Lit("\n"), Ws, Lit("\n") >>

\* gi.py, clean_medgemma_output: the prompt echoes go, then the empty
\* structure, then runs of blank lines, then the white space at both ends.
CleanMedgemmaOutput(raw_output) ==
    Strip(ReSub(BlankLines, "\n",
        SubAtStart(EmptyStructureInline,
            ReSubIgnoreCase(EmptyStructure, "",
                RemovePrompts(raw_output, 1, Len(PromptStarts))))))

\* gi.py, extract_structured_answer: the pattern.
LivePattern ==
    << Lit("finding:"), Ws, Cap, Ws, Lit("\n"),
       Ws, Lit("location:"), Ws, Cap, Ws, Lit("\n"),
       Ws, Lit("risk"), Opt(<<Ws1, Lit("level")>>),
           Opt(<<Ws, Lit("(low/medium/high)")>>), Lit(":"), Ws, Cap, Ws, Lit("\n"),
       Ws, Lit("suggested "), Alt(<<Lit("next step")>>, <<Lit("action")>>), Lit(":"),
           Ws, Cap, NlEnd >>

\* The words that mark a finding as prompt text.
PromptWords == {"medgemma", "analyze", "endoscopist"}

\* The groups of match m on s, each stripped; <<>> without a match.
StrippedGroups(s, m) ==
    IF m = <<>> THEN <<>>
    ELSE [ k \in 1..Len(m[3]) |-> Strip(SubSeq(s, m[3][k][1], m[3][k][2])) ]

\* gi.py, extract_structured_answer: finding, location, risk and action as
\* the pattern finds them in the cleaned text; <<>> when it is not found.
LiveFields(cleaned) ==
    IF cleaned = "" THEN <<>>
    ELSE StrippedGroups(cleaned, SearchFrom(LivePattern, ToLower(cleaned), 1))

\* gi.py, extract_structured_answer: the finding must have actual content.
BadFinding(finding) ==
    \/ finding = ""
    \/ Len(finding) < 3
    \/ \E w \in PromptWords : Contains(ToLower(finding), w)

\* gi.py, extract_structured_answer: the four fields in the fixed layout, ""
\* when the pattern was not found or the finding is not acceptable.
Structured(fields) ==
    IF fields = <<>> THEN ""
    ELSE IF BadFinding(fields[1]) THEN ""
    ELSE "Finding: " \o fields[1] \o "\nLocation: " \o fields[2]
           \o "\nRisk Level: " \o fields[3] \o "\nSuggested Action: " \o fields[4]

\* gi.py, extract_structured_answer
ExtractStructuredAnswer(text) == Structured(LiveFields(CleanMedgemmaOutput(text)))

\* video_processor.py, _parse_analysis: the pattern.
FilePattern ==
    << Lit("Finding:"), Ws, Cap, Lit("\n"),
       Lit("Location:"), Ws, Cap, Lit("\n"),
       Lit("Risk Level:"), Ws, Cap, Lit("\n"),
       Lit("Suggested Action:"), Ws, Cap, NlEnd >>

FeatureKeywords == {"erythema", "ulcer", "polyp", "inflammation", "bleeding", "lesion"}

\* VideoProcessor._parse_analysis.  none = TRUE models the Python None the
\* function returns when it falls off its end (text without the pattern).
\* Confidence is in hundredths.
ParseDefaults ==
    [ none |-> FALSE,
      finding |-> "No abnormal finding", location |-> "Unknown",
      risk_level |-> "low", confidence |-> 75, features |-> {},
      suggested_action |-> "Continue inspection" ]

\* The result for the match m of the pattern on raw_output.
ParsedFrom(raw_output, m) ==
    IF m = <<>> THEN [ParseDefaults EXCEPT !.none = TRUE]
    ELSE LET risk_text == ToLower(SubSeq(raw_output, m[3][3][1], m[3][3][2])) IN
         [ none |-> FALSE,
           finding |-> Strip(SubSeq(raw_output, m[3][1][1], m[3][1][2])),
           location |-> Strip(SubSeq(raw_output, m[3][2][1], m[3][2][2])),
           risk_level |-> IF Contains(risk_text, "high") THEN "high"
                          ELSE IF Contains(risk_text, "medium") THEN "medium"
                          ELSE "low",
           confidence |-> IF Contains(risk_text, "high") THEN 85
                          ELSE IF Contains(risk_text, "medium") THEN 80 ELSE 75,
           features |-> { kw \in FeatureKeywords : Contains(ToLower(raw_output), kw) },
           suggested_action |-> Strip(SubSeq(raw_output, m[3][4][1], m[3][4][2])) ]

ParseAnalysis(raw_output) ==
    IF raw_output = "" THEN ParseDefaults
    ELSE ParsedFrom(raw_output, SearchFrom(FilePattern, raw_output, 1))

\* What MedGemmaEngine.analyze hands back: a structured answer, or the text it
\* substitutes when the model produced nothing usable.
OutLow == "Finding: Normal mucosa\nLocation: Stomach\nRisk Level: Low\nSuggested Action: Continue"
OutHigh == "Finding: Polyp\nLocation: Colon\nRisk Level: High\nSuggested Action: Biopsy"
OutUnstructured == "Analysis not available"
EngineOutputs == {OutLow, OutHigh, OutUnstructured}

\* The unfilled label skeleton: the four labels without values, with or
\* without the hint after "Risk Level", with either last label, with or
\* without the newline at the end.
SkeletonOf(hint, last, nl) ==
    "Finding:\nLocation:\nRisk Level" \o hint \o ":\n" \o last \o nl
RiskHints == {"", " (Low/Medium/High)"}
LastLabels == {"Suggested Next Step:", "Suggested Action:"}
Skeletons ==
    { SkeletonOf(hint, last, nl) : hint \in RiskHints, last \in LastLabels, nl \in {"", "\n"} }

\* The skeleton with a blank after the first label.
SpacedSkeleton == "Finding: \nLocation:\nRisk Level:\nSuggested Action:"

\* A filled answer in the layout the prompts ask for.
AnswerOf(finding, risk, last) ==
    "Finding: " \o finding \o "\nLocation: Colon\nRisk Level: " \o risk
        \o "\n" \o last \o " Biopsy"
FindingTexts == {"", "ab", "Analyze image", "Polyp", "Mild erythema"}
RiskTexts == {"Low", "Medium", "High", "Moderate", "Low / Medium / High"}
Answers ==
    { AnswerOf(finding, "High", last) : finding \in FindingTexts, last \in LastLabels }
        \cup { AnswerOf("Polyp", risk, "Suggested Action:") : risk \in RiskTexts }

\* A finding line alone, and free text.
FindingOnly == "Finding: Polyp in the colon"
FreeTexts == {"", "Polyp", FindingOnly, OutUnstructured}

\* The texts the model can generate that the text functions are applied to.
\* None holds an echo of the prompt.
RawTexts == Skeletons \cup {SpacedSkeleton} \cup Answers \cup FreeTexts \cup EngineOutputs

\* MedGemmaEngine.analyze on the text the model generated: stripped, the
\* echo that starts at <start_of_image> removed, and a fixed text in place of
\* nothing.  (The prompt itself, which analyze also removes, is in none of
\* the texts here.)
ImageEcho == << Lit("<start_of_image>"), Cap, Stop({"finding:", "location:"}) >>
OrNoAnalysis(cleaned) == IF cleaned = "" THEN "No analysis available" ELSE cleaned
AnalyzeReturn(generated) ==
    IF Strip(generated) = "" THEN "Analysis not available"
    ELSE OrNoAnalysis(Strip(ReSubIgnoreCase(ImageEcho, "", Strip(generated))))

\* A function of the code is worked out once for the texts a specification
\* uses and kept as a table of pairs << text, value >>.
At(table, x) == (CHOOSE pair \in table : pair[1] = x)[2]

\* _parse_analysis on each of the outputs.
Parsed(outputs) == { <<raw, ParseAnalysis(raw)>> : raw \in outputs }

\* q[:n] of a text or a list
Take(q, n) == SubSeq(q, 1, IF Len(q) < n THEN Len(q) ELSE n)

\* n times the character c, by halves.
RECURSIVE Rep(_, _)
Rep(c, n) ==
    IF n <= 0 THEN ""
    ELSE IF n = 1 THEN c
    ELSE Rep(c, n \div 2) \o Rep(c, n - (n \div 2))

Digits == "0123456789"

\* ------------------------------------------------- the live text functions
\* The functions of gi.py and timeline_store.py that work on text alone.

\* gi.py, snapshot: the words that mark a result as prompt text.
SnapshotWords == {"you are medgemma", "analyze this", "endoscopist"}

\* gi.py, snapshot: the text that goes on for the model output: the
\* structured answer, else the cleaned output, "" when that is too short.
\* cleaned is clean_medgemma_output(output), which snapshot calls after
\* extract_structured_answer has called it on the same text.
ResultFrom(cleaned) ==
    LET clean == Structured(LiveFields(cleaned)) IN
    IF clean # "" THEN clean
    ELSE IF cleaned = "" \/ Len(cleaned) < 10 THEN "" ELSE cleaned

SnapshotResult(output) == ResultFrom(CleanMedgemmaOutput(output))

\* Variant: should_add without the test for the empty structure.
ShouldAddAnyStart(result) ==
    /\ result # ""
    /\ Len(result) > 15
    /\ Contains(result, "Finding:")
    /\ ~\E w \in SnapshotWords : Contains(ToLower(result), w)

\* gi.py, snapshot: should_add
ShouldAdd(result) ==
    /\ result # ""
    /\ Len(result) > 15
    /\ ~StartsAt(result, 1, "Finding:\nLocation:")
    /\ Contains(result, "Finding:")
    /\ ~\E w \in SnapshotWords : Contains(ToLower(result), w)

\* The results of snapshot on the outputs of the engine.
SnapshotOutcome(result) == [result |-> result, add |-> ShouldAdd(result)]

Snapshots(outputs) == { <<raw, SnapshotOutcome(SnapshotResult(raw))>> : raw \in outputs }

TwoDigits(n) == Char(Digits, ((n \div 10) % 10) + 1) \o Char(Digits, (n % 10) + 1)

\* datetime.now().strftime("%H:%M:%S") at tick t.
ClockString(t) ==
    LET sec == t \div TicksPerSecond IN
    TwoDigits((sec \div 3600) % 24) \o ":" \o TwoDigits((sec \div 60) % 60)
        \o ":" \o TwoDigits(sec % 60)

\* TimelineStore.add: f"[{timestamp}] {finding}"
TimelineEntry(t, finding) == "[" \o ClockString(t) \o "] " \o finding

\* save_live_session: timestamp_ms=idx * 3000
FrameIntervalMs == 3000

\* finding_text[:500]
MaxFindingChars == 500

\* s.split("\n")
RECURSIVE SplitLines(_)
SplitLines(s) ==
    LET nls == { i \in 1..Len(s) : Char(s, i) = "\n" } IN
    IF nls = {} THEN <<s>>
    ELSE <<SubSeq(s, 1, Min(nls) - 1)>> \o SplitLines(From(s, Min(nls) + 1))

\* The value save_live_session reads for a label from the lines of the
\* structured text: part.replace(label, "").strip() of the last line that
\* starts with the label and with no label tested before it; "" without one.
LabelsInOrder == << "Finding:", "Location:", "Risk Level:", "Suggested Action:" >>

FieldOf(parts, n) ==
    LET mine == { k \in 1..Len(parts) :
                    /\ StartsAt(parts[k], 1, LabelsInOrder[n])
                    /\ \A j \in 1..(n - 1) : ~StartsAt(parts[k], 1, LabelsInOrder[j]) } IN
    IF mine = {} THEN ""
    ELSE Strip(ReSub(<<Lit(LabelsInOrder[n])>>, "",
                     parts[CHOOSE k \in mine : \A j \in mine : j <= k]))

\* The FrameAnalysis row save_live_session builds for the entry at position
\* idx (from 0), structured being what extract_structured_answer made of the
\* entry: the fields of the structured text, or the first 500 characters of
\* the entry as the finding.  Confidence is in hundredths.
LiveRowOf(idx, entry, structured) ==
    LET parts == SplitLines(structured) IN
    [ frame_id |-> idx + 1,
      finding |-> IF structured # "" THEN FieldOf(parts, 1) ELSE Take(entry, MaxFindingChars),
      anatomical_location |-> IF structured # "" THEN FieldOf(parts, 2) ELSE "Unknown",
      risk_level |-> IF structured # "" THEN ToLower(FieldOf(parts, 3)) ELSE "low",
      confidence_score |-> 85, detected_features |-> {},
      suggested_action |-> IF structured # "" THEN FieldOf(parts, 4) ELSE "",
      raw_output |-> entry ]

LiveAnalysisRow(idx, entry) == LiveRowOf(idx, entry, ExtractStructuredAnswer(entry))

\* The answers to a clarifying question: free text.
ClarifyOutputs == {OutUnstructured}

\* The entries the buffer can hold: the results snapshot adds and the answers
\* clarify adds, stamped.
LiveEntries(snapshots, answers) ==
    { TimelineEntry(t, sn[2].result) : t \in 0..MaxClock, sn \in { p \in snapshots : p[2].add } }
    \cup { TimelineEntry(t, "CLARIFY: " \o raw) : t \in 0..MaxClock, raw \in answers }

\* extract_structured_answer on each of the texts: the fields its pattern
\* finds in the cleaned text, and the value it returns for them.
Matched(texts) == { <<text, LiveFields(CleanMedgemmaOutput(text))>> : text \in texts }

Extracted(matched) == { <<p[1], Structured(p[2])>> : p \in matched }

\* The rows save_live_session builds from the entries (at position 0),
\* extracted holding what extract_structured_answer makes of each.
SavedRows(extracted, entries) ==
    { <<e, LiveRowOf(0, e, At(extracted, e))>> : e \in entries }

\* analyze on each text the model generates.
Returned(generated) == { <<text, AnalyzeReturn(text)>> : text \in generated }

\* The tables for the texts the engine makes of what the model generates
\* (returned), handed to analyze_frames_batch and snapshot (outputs) and to
\* clarify (answers).
TablesWith(returned, parsed, snapshots, matched, extracted, entries) ==
    [ generated |-> returned, parsed |-> parsed, snapshots |-> snapshots,
      matched |-> matched, extracted |-> extracted,
      saved |-> SavedRows(extracted, entries) ]

TablesAfter(returned, parsed, snapshots, matched, entries) ==
    TablesWith(returned, parsed, snapshots, matched, Extracted(matched), entries)

TablesOver(returned, outputs, snapshots, entries) ==
    TablesAfter(returned, Parsed(outputs), snapshots,
                Matched(outputs \cup entries), entries)

TablesFrom(returned, outputs, answers, snapshots) ==
    TablesOver(returned, outputs, snapshots, LiveEntries(snapshots, answers))

TablesOf(returned, outputs, answers) ==
    TablesFrom(returned, outputs, answers, Snapshots(outputs))

\* The tables a behaviour starts with, and none.
TextTables == TablesOf(Returned(EngineOutputs), EngineOutputs, ClarifyOutputs)

NoTables ==
    [ generated |-> {}, parsed |-> {}, snapshots |-> {}, matched |-> {},
      extracted |-> {}, saved |-> {} ]

\* ------------------------------------------------------------------ state

VARIABLES
    now,                 \* wall clock, in ticks
    video,               \* frames sampling yields from each uploaded source
    session,             \* video_sessions rows (committed)
    frames,              \* video_frames rows per session (committed)
    analyses,            \* frame_analysis rows per session (committed)
    summaries,           \* session_summaries rows per session (committed)
    bundles,             \* export bundle files in storage: name and content
    run,                 \* the background invocations
    current_session_id,  \* gi.py: the live session identifier
    timeline,            \* gi.py: the live buffer (TimelineStore.timeline)
    latest_frame,        \* gi.py: the image of the latest snapshot
    uuids,               \* the identifiers uuid4 has handed to start_live_session
    list_id,             \* timeline_store.py: which list object self.timeline names
    adder,               \* the threads inside TimelineStore.add
    appends,             \* the appends that ran since the latest clear
    sum_analyses,        \* generate_summary: the FrameAnalysis rows of the session
    sum_rows,            \* generate_summary: the session_summaries rows of the session
    sum_results,         \* generate_summary: what each call returned or raised
    cap,                 \* extract_frames: the opened source and the loop's locals
    sampled,             \* extract_frames: the VideoFrame rows it added
    memo,                \* the text functions of the code on the engine's outputs
    relay,               \* gi.py websocket_proxy: the two forwarding loops and their peers
    batch,               \* analyze_frames_batch: the outer loop's locals and the progress it reported
    origin               \* history: when the live requests arrived and when their images were taken

liveVars == << current_session_id, timeline, latest_frame, uuids >>

\* The state of the operations that are studied one at a time.
summaryVars == << sum_analyses, sum_rows, sum_results >>

samplerVars == << cap, sampled >>

storeVars == << list_id, adder, appends >>

\* The text functions are worked out once, at the start, for the outputs
\* the engine can give; no step changes them.
textVars == << memo >>

\* The duplex relay of websocket_proxy.
relayVars == << relay >>

\* The batch loop of analyze_frames_batch with a progress callback.
batchVars == << batch >>

\* History of the live requests, kept where the requests are followed one
\* by one; it is no state of the program.
historyVars == << origin >>

workVars == << summaryVars, samplerVars, storeVars, textVars, relayVars, batchVars >>

unitVars == << workVars, historyVars >>

pipelineVars == << now, video, session, frames, analyses, summaries, bundles, run >>

vars == << now, video, session, frames, analyses, summaries, bundles, run,
           liveVars, unitVars >>

NoRow ==
    [ exists |-> FALSE, session_type |-> NONE, processing_status |-> NONE,
      processing_progress |-> 0, frame_count |-> -1, export_bundle_path |-> NONE ]

Stages == {"sampling", "analysis", "summary", "export"}

\* The latest model call of a run: none yet.
NoCall == [called |-> FALSE, raised |-> FALSE, text |-> ""]

IdleRun ==
    [ kind |-> "idle", sid |-> NONE, pc |-> "idle", batch_size |-> DefaultBatchSize,
      todo |-> <<>>, seen |-> {}, i |-> 1, pend |-> <<>>, err |-> NONE,
      handled |-> FALSE, last |-> NoCall, plog |-> <<>>, stages |-> {},
      bundle |-> NONE, opened |-> TRUE ]

\* The pipeline's tables, storage and runs before anything happened.
PipelineInit ==
    /\ now = 0
    /\ video = [s \in RecordedIds |-> 0]
    /\ session = [s \in SessionIds |-> NoRow]
    /\ frames = [s \in SessionIds |-> <<>>]
    /\ analyses = [s \in SessionIds |-> <<>>]
    /\ summaries = [s \in SessionIds |-> <<>>]
    /\ bundles = {}
    /\ run = [r \in Runs |-> IdleRun]

\* gi.py at import: no live session, an empty TimelineStore.
LiveInit ==
    /\ current_session_id = NONE
    /\ timeline = <<>>
    /\ latest_frame = NONE
    /\ uuids = {}

SummaryIdle ==
    /\ sum_analyses = <<>>
    /\ sum_rows = <<>>
    /\ sum_results = <<>>

NoCapture ==
    [ fps |-> 0, target_fps |-> 1, state |-> "closed", frame_interval |-> 0,
      frame_index |-> 0, frames_extracted |-> 0 ]

SamplerIdle ==
    /\ cap = NoCapture
    /\ sampled = <<>>

\* The threads that call TimelineStore.add.
Adders == {"a1", "a2"}

NoAdd == [ pc |-> "idle", entry |-> NONE, loaded |-> 0, stamped_before |-> FALSE,
           crossed |-> FALSE ]

StoreIdle ==
    /\ list_id = 0
    /\ adder = [th \in Adders |-> NoAdd]
    /\ appends = <<>>

\* websocket_proxy has not been called.
NoRelay ==
    [ client |-> "none", upstream |-> "none", from_client |-> <<>>, from_upstream |-> <<>>,
      c2u |-> "idle", u2c |-> "idle", client_sent |-> 0, upstream_sent |-> 0,
      returned |-> FALSE ]

RelayIdle == relay = NoRelay

\* analyze_frames_batch has not been called.
NoBatch == [ total |-> 0, batch_size |-> DefaultBatchSize, i |-> 0, state |-> "idle", reported |-> <<>> ]

BatchIdle == batch = NoBatch

\* No live request has arrived: nothing waits, no image is retained, the
\* buffer is empty.
NoOrigin == [ waiting |-> <<>>, frame |-> 0, entries |-> <<>> ]

OriginIdle == origin = NoOrigin

Init ==
    /\ PipelineInit
    /\ LiveInit
    /\ SummaryIdle
    /\ SamplerIdle
    /\ StoreIdle
    /\ OriginIdle
    /\ RelayIdle
    /\ BatchIdle
    /\ memo = TextTables

\* ------------------------------------------------------- database helpers

\* The frame ids (row positions) of session s that satisfy P, by frame_index.
RECURSIVE OrderByIndex(_, _)
OrderByIndex(s, ids) ==
    IF ids = {} THEN <<>>
    ELSE LET f == CHOOSE x \in ids :
                    \A y \in ids : frames[s][x].frame_index <= frames[s][y].frame_index
         IN <<f>> \o OrderByIndex(s, ids \ {f})

FrameIds(s) == 1..Len(frames[s])

AnalysesOf(s, fid) == { k \in 1..Len(analyses[s]) : analyses[s][k].frame_id = fid }

\* frame_analysis.frame_id is UNIQUE: inserting the rows p fails when one of
\* their frames already has a committed row.
AnalysisConflict(s, p) == \E k \in 1..Len(p) : AnalysesOf(s, p[k].frame_id) # {}

\* Variant: video_frames without the UNIQUE constraint.
FrameConflictNever(s, n) == FALSE

\* video_frames has UNIQUE (session_id, frame_index).
FrameConflict(s, n) ==
    \E k \in FrameIds(s) : frames[s][k].frame_index \in 0..(n - 1)

\* Variant: the commit marks every frame of the session.
FramesMarkedAll(s, p) ==
    [ k \in FrameIds(s) |-> [frames[s][k] EXCEPT !.analyzed = TRUE] ]

\* Committing the pending FrameAnalysis rows p together with analyzed = True
\* on their frames.
FramesMarked(s, p) ==
    [ k \in FrameIds(s) |->
        IF \E j \in 1..Len(p) : p[j].frame_id = k
        THEN [frames[s][k] EXCEPT !.analyzed = TRUE] ELSE frames[s][k] ]

\* ------------------------------------------------------------- the runs
\* A run is one background invocation: kind "local" is the thread
\* upload_video starts (process_in_background), "process_video" and
\* "analyze_frames" are the Celery tasks of these names.

Free(r) == run[r].pc \in {"idle", "done"}

\* Variant: _update_progress defined as a method of the task class.
UpdateProgressIsMethod == TRUE

\* tasks.py defines _update_progress at module level, so the task object has
\* no attribute of this name: self._update_progress raises AttributeError.
UpdateProgressBound == FALSE

\* The run record after the progress callbacks ps were called in this order.
\* Only process_video_task passes a progress_callback.
Reported(rec, ps) ==
    IF rec.kind # "process_video" \/ ps = <<>> THEN rec
    ELSE IF UpdateProgressBound THEN [rec EXCEPT !.plog = rec.plog \o ps]
    ELSE [rec EXCEPT !.err = "AttributeError", !.pc = "handler",
                     !.todo = <<>>, !.seen = {}, !.i = 1]

\* The session row after run record rec (the run's state after the step)
\* wrote its progress values: _update_progress commits each one.
Progressed(row, old, rec) ==
    IF Len(rec.plog) > Len(old.plog) /\ row.exists
    THEN [row EXCEPT !.processing_progress = rec.plog[Len(rec.plog)]]
    ELSE row

\* The locals of analyze_frames_batch go when an exception leaves it.
Left(rec) == [rec EXCEPT !.todo = <<>>, !.seen = {}, !.i = 1]

\* What stops a stage: where the run goes with exception e.  The pipeline
\* runs have an except block; analyze_frames_task and generate_export_task
\* only close their session.
Raised(rec, e) ==
    IF rec.kind \in {"analyze_frames", "generate_export"}
    THEN [Left(rec) EXCEPT !.err = e, !.pc = "done", !.pend = <<>>]
    ELSE [Left(rec) EXCEPT !.err = e, !.pc = "handler"]

\* upload_video: the session row, status pending, and the background thread.
UploadVideo(r, s, n) ==
    /\ Free(r)
    /\ ~session[s].exists
    /\ video' = [video EXCEPT ![s] = n]
    /\ session' = [session EXCEPT ![s] =
           [NoRow EXCEPT !.exists = TRUE, !.session_type = "recorded",
                         !.processing_status = "pending"]]
    /\ run' = [run EXCEPT ![r] =
           [IdleRun EXCEPT !.kind = "local", !.sid = s, !.pc = "start"]]
    /\ UNCHANGED << now, frames, analyses, summaries, bundles, liveVars, unitVars >>

\* process_in_background, up to the first stage.
LocalStart(r) ==
    /\ run[r].kind = "local" /\ run[r].pc = "start"
    /\ session' = [session EXCEPT ![run[r].sid].processing_status = "processing"]
    /\ run' = [run EXCEPT ![r].pc = "extract"]
    /\ UNCHANGED << now, video, frames, analyses, summaries, bundles, liveVars, unitVars >>

\* process_video_task, up to the first stage.
ProcessVideoStart(r, s, bs) ==
    /\ Free(r)
    /\ LET rec == [IdleRun EXCEPT !.kind = "process_video", !.sid = s,
                                  !.batch_size = bs] IN
       IF session[s].exists
       THEN /\ session' = [session EXCEPT ![s].processing_status = "processing"]
            /\ run' = [run EXCEPT ![r] = [rec EXCEPT !.pc = "extract"]]
       ELSE /\ session' = session
            /\ run' = [run EXCEPT ![r] = Raised(rec, "ValueError")]
    /\ UNCHANGED << now, video, frames, analyses, summaries, bundles, liveVars, unitVars >>

\* The rows extract_frames adds for n sampled frames.
NewFrames(n) == [ k \in 1..n |-> [frame_index |-> k - 1, analyzed |-> FALSE] ]

\* Variant: extract_frames without the isOpened test; reading a source that
\* is not open yields no frame.
CannotOpenUnnoticed(rec) ==
    [rec EXCEPT !.opened = FALSE, !.pc = "query", !.stages = @ \cup {"sampling"}]

\* cap.isOpened() is false: ValueError before the first frame is read.
CannotOpen(rec) == Raised([rec EXCEPT !.opened = FALSE], "ValueError")

\* VideoProcessor.extract_frames and, in process_video_task, the frame_count
\* update after it.  opened: whether cv2 could open the source.
ExtractFrames(r, opened) ==
    /\ run[r].pc = "extract"
    /\ LET s == run[r].sid
           n == video[s]
           \* frames committed before the first progress callback
           first == IF n >= CommitEvery THEN CommitEvery ELSE n
           \* one callback per CommitEvery sampled frames
           cb == [ j \in 1..(n \div CommitEvery) |-> ((j * CommitEvery - 1) * 30) \div n ]
           rep == Reported(run[r], cb)
       IN
       IF ~opened
       THEN /\ run' = [run EXCEPT ![r] = CannotOpen(run[r])]
            /\ UNCHANGED << session, frames >>
       ELSE IF FrameConflict(s, n)
       THEN /\ run' = [run EXCEPT ![r] = Raised(run[r], "IntegrityError")]
            /\ UNCHANGED << session, frames >>
       ELSE IF rep.err # NONE
       THEN /\ frames' = [frames EXCEPT ![s] = @ \o NewFrames(first)]
            /\ run' = [run EXCEPT ![r] = rep]
            /\ UNCHANGED session
       ELSE /\ frames' = [frames EXCEPT ![s] = @ \o NewFrames(n)]
            /\ run' = [run EXCEPT ![r] =
                   [rep EXCEPT !.pc = "query", !.stages = @ \cup {"sampling"}]]
            /\ session' = [session EXCEPT ![s] =
                   IF run[r].kind = "process_video"
                   THEN [Progressed(@, run[r], rep) EXCEPT !.frame_count = n]
                   ELSE @]
    /\ UNCHANGED << now, video, analyses, summaries, bundles, liveVars, unitVars >>

\* Variant: the query without its analyzed filter.
UnanalyzedNoFilter(s) == OrderByIndex(s, FrameIds(s))

\* The query that opens analyze_frames_batch: the frames with analyzed = False,
\* by frame_index.
Unanalyzed(s) == OrderByIndex(s, { k \in FrameIds(s) : ~frames[s][k].analyzed })

\* Where a run goes when analyze_frames_batch has returned.  seen stays as
\* the record of what the invocation found analyzed.
AfterAnalysis(rec) ==
    [rec EXCEPT
        !.pc = IF rec.kind = "analyze_frames" THEN "done" ELSE "summary",
        !.todo = <<>>, !.i = 1,
        !.stages = @ \cup {"analysis"}]

Queried(rec, s) ==
    LET q == [rec EXCEPT !.todo = Unanalyzed(s), !.i = 1, !.pend = <<>>,
                         !.seen = { k \in FrameIds(s) : frames[s][k].analyzed }]
    IN IF q.todo = <<>> THEN AfterAnalysis(q) ELSE [q EXCEPT !.pc = "analyze"]

\* analyze_frames_batch, entered from a pipeline run.
AnalyzeQuery(r) ==
    /\ run[r].pc = "query"
    /\ run' = [run EXCEPT ![r] = Queried(run[r], run[r].sid)]
    /\ UNCHANGED << now, video, session, frames, analyses, summaries, bundles, liveVars, unitVars >>

\* analyze_frames_task: analyze_frames_batch alone, without callback.
AnalyzeFramesStart(r, s, bs) ==
    /\ Free(r)
    /\ run' = [run EXCEPT ![r] =
           Queried([IdleRun EXCEPT !.kind = "analyze_frames", !.sid = s,
                                   !.batch_size = bs], s)]
    /\ UNCHANGED << now, video, session, frames, analyses, summaries, bundles, liveVars, unitVars >>

\* The (i, total_frames) with total_frames <= MaxBatchFrames for which
\* CPython's int((i / total_frames) * 50) is 1 below (50 * i) div total_frames.
ProgressRoundsBelow == { <<29, 50>> }

\* progress = 30 + int((i / total_frames) * 50), i the index the batch starts at
BatchProgress(i, total_frames) ==
    30 + ((50 * i) \div total_frames)
       - (IF <<i, total_frames>> \in ProgressRoundsBelow THEN 1 ELSE 0)

\* The FrameAnalysis row analyze_frames_batch builds from the parsed answer.
AnalysisRow(fid, parsed, raw) ==
    [ frame_id |-> fid, finding |-> parsed.finding,
      anatomical_location |-> parsed.location, risk_level |-> parsed.risk_level,
      confidence_score |-> parsed.confidence, detected_features |-> {},
      suggested_action |-> parsed.suggested_action, raw_output |-> raw ]

\* One pass of the inner loop of analyze_frames_batch: the inference call for
\* the next frame, its parse, the pending row; after the last frame of a batch
\* the commit and the progress callback.  raises: the model call raised.
AnalyzeFrame(r, raises, raw) ==
    /\ run[r].pc = "analyze"
    /\ LET s == run[r].sid
           rec == [run[r] EXCEPT !.last = [called |-> TRUE, raised |-> raises, text |-> raw]]
           fid == rec.todo[rec.i]
           total == Len(rec.todo)
           parsed == IF raises THEN ParseDefaults ELSE At(memo.parsed, raw)
           pend == Append(rec.pend, AnalysisRow(fid, parsed, raw))
           lastOfBatch == rec.i % rec.batch_size = 0 \/ rec.i = total
           batchStart == ((rec.i - 1) \div rec.batch_size) * rec.batch_size
           rep == Reported([rec EXCEPT !.pend = <<>>],
                           << BatchProgress(batchStart, total) >>)
       IN
       IF raises
       THEN /\ run' = [run EXCEPT ![r] = Raised(rec, "InferenceError")]
            /\ UNCHANGED << session, frames, analyses >>
       ELSE IF parsed.none
       THEN /\ run' = [run EXCEPT ![r] = Raised(rec, "AttributeError")]
            /\ UNCHANGED << session, frames, analyses >>
       ELSE IF ~lastOfBatch
       THEN /\ run' = [run EXCEPT ![r] = [rec EXCEPT !.pend = pend, !.i = @ + 1]]
            /\ UNCHANGED << session, frames, analyses >>
       ELSE IF AnalysisConflict(s, pend)
       THEN /\ run' = [run EXCEPT ![r] =
                   Raised([rec EXCEPT !.pend = <<>>], "IntegrityError")]
            /\ UNCHANGED << session, frames, analyses >>
       ELSE /\ analyses' = [analyses EXCEPT ![s] = @ \o pend]
            /\ frames' = [frames EXCEPT ![s] = FramesMarked(s, pend)]
            /\ session' = [session EXCEPT ![s] = Progressed(@, rec, rep)]
            /\ run' = [run EXCEPT ![r] =
                   IF rep.err # NONE THEN rep
                   ELSE IF rec.i = total THEN AfterAnalysis(rep)
                   ELSE [rep EXCEPT !.i = @ + 1]]
    /\ UNCHANGED << now, video, summaries, bundles, liveVars, unitVars >>

\* The SessionSummary row generate_summary builds from the rows a.
SummaryRow(a) ==
    [ total_frames_analyzed |-> Len(a),
      high_risk_findings_count |->
          Cardinality({ k \in 1..Len(a) : a[k].risk_level = "high" }) ]

\* Variant: generate_summary without the test on its query's result.
NoAnalysesUnchecked(s) == FALSE

\* if not analyses: raise ValueError("No analyses found for session")
NoAnalyses(s) == analyses[s] = <<>>

\* Step 3 of the pipeline: in process_video_task the progress update to 80,
\* then VideoProcessor.generate_summary.  session_summaries.session_id is
\* UNIQUE, so a second row for the session fails the commit.
GenerateSummary(r) ==
    /\ run[r].pc = "summary"
    /\ LET s == run[r].sid
           rep == Reported(run[r], <<80>>)
       IN
       IF rep.err # NONE
       THEN /\ run' = [run EXCEPT ![r] = rep]
            /\ UNCHANGED << session, summaries >>
       ELSE /\ session' = [session EXCEPT ![s] = Progressed(@, run[r], rep)]
            /\ IF NoAnalyses(s)
               THEN /\ run' = [run EXCEPT ![r] = Raised(rep, "ValueError")]
                    /\ UNCHANGED summaries
               ELSE IF summaries[s] # <<>>
               THEN /\ run' = [run EXCEPT ![r] = Raised(rep, "IntegrityError")]
                    /\ UNCHANGED summaries
               ELSE /\ summaries' = [summaries EXCEPT ![s] = <<SummaryRow(analyses[s])>>]
                    /\ run' = [run EXCEPT ![r] =
                           [rep EXCEPT !.pc = "export", !.stages = @ \cup {"summary"}]]
    /\ UNCHANGED << now, video, frames, analyses, bundles, liveVars, unitVars >>

\* The bundle file name carries the session id and the time to the second.
BundleName(s, t) == << "gi_copilot_export", s, t \div TicksPerSecond >>

\* The archive create_export_bundle writes at tick t: the files it put into
\* its temporary directory, and of metadata.json the fields that vary.
BundleFile(s, t) ==
    [ name |-> BundleName(s, t),
      entries |-> {"original_video.mp4", "frame_analysis.json", "metadata.json"}
                    \cup (IF summaries[s] # <<>> THEN {"summary.txt"} ELSE {}),
      total_frames |-> session[s].frame_count,
      frames_analyzed |-> Len(analyses[s]),
      export_generated_at |-> t ]

\* StorageService.save_export_bundle: shutil.copy2 to exports/<name>; a file
\* of this name is overwritten.
SaveExportBundle(files, f) == { g \in files : g.name # f.name } \cup {f}

ExportFailures == {"none", "download", "save"}

\* The progress callbacks create_export_bundle makes before it stops at `fail`.
ExportCallbacks(fail) ==
    CASE fail = "download" -> <<>>
      [] fail = "save" -> <<85, 90, 95>>
      [] OTHER -> <<85, 90, 95, 100>>

\* Step 4 of the pipeline: in process_video_task the progress update to 90,
\* then VideoProcessor.create_export_bundle.  fail: the storage operation that
\* raised, if any; t: the tick of the clock the bundle is made at (the clock
\* is read nowhere else, so time passes here).
CreateExportBundle(r, fail, t) ==
    /\ run[r].pc = "export"
    /\ t >= now
    /\ now' = t
    /\ LET s == run[r].sid
           rep == Reported(run[r], <<90>> \o ExportCallbacks(fail))
       IN
       /\ session' = [session EXCEPT ![s] = Progressed(@, run[r], rep)]
       /\ IF ~session[s].exists
          THEN /\ run' = [run EXCEPT ![r] = Raised(run[r], "ValueError")]
               /\ UNCHANGED bundles
          ELSE IF rep.err # NONE
          THEN /\ run' = [run EXCEPT ![r] = rep]
               /\ UNCHANGED bundles
          ELSE IF fail # "none"
          THEN /\ run' = [run EXCEPT ![r] = Raised(rep, "StorageError")]
               /\ UNCHANGED bundles
          ELSE /\ bundles' = SaveExportBundle(bundles, BundleFile(s, t))
               /\ run' = [run EXCEPT ![r] =
                      [rep EXCEPT !.pc = "complete", !.bundle = BundleName(s, t),
                                  !.stages = @ \cup {"export"}]]
    /\ UNCHANGED << video, frames, analyses, summaries, liveVars, unitVars >>

\* Variant: completion without the progress write.
CompletedRowKeepsProgress(row, rec) ==
    [row EXCEPT !.processing_status = "completed",
                !.export_bundle_path =
                    IF rec.kind = "process_video" THEN rec.bundle ELSE @]

\* The last writes of a pipeline run: status completed, progress 100; only
\* process_video_task stores the bundle path.
CompletedRow(row, rec) ==
    [row EXCEPT !.processing_status = "completed",
                !.processing_progress = 100,
                !.export_bundle_path =
                    IF rec.kind = "process_video" THEN rec.bundle ELSE @]

Complete(r) ==
    /\ run[r].pc = "complete" /\ run[r].kind \in {"local", "process_video"}
    /\ session' = [session EXCEPT ![run[r].sid] = CompletedRow(@, run[r])]
    /\ run' = [run EXCEPT ![r].pc = "done", ![r].plog = Append(@, 100)]
    /\ UNCHANGED << now, video, frames, analyses, summaries, bundles, liveVars, unitVars >>

\* Variant: a handler whose flush inserts the pending rows and loses the
\* analyzed flags set with them.
AutoflushedRowsOnly(s, p) == frames[s]

\* The frames of s after the except block's first query flushed the run's
\* database session: the frames of the pending rows p carry analyzed = True.
Autoflushed(s, p) == FramesMarked(s, p)

\* The except block of a pipeline run.  process_video_task works on the
\* database session of the run (autoflush on): its query first flushes the
\* rows still pending from an interrupted batch, and the flush raises if one
\* of them breaks the UNIQUE constraint; otherwise the commit that stores
\* "failed" stores these rows too.  process_in_background opens a new
\* database session, so the pending rows of the run are dropped.
HandleError(r) ==
    /\ run[r].pc = "handler"
    /\ LET s == run[r].sid
           rec == [run[r] EXCEPT !.pc = "done", !.pend = <<>>]
           p == run[r].pend
       IN
       IF run[r].kind = "process_video" /\ AnalysisConflict(s, p)
       THEN /\ run' = [run EXCEPT ![r] = rec]
            /\ UNCHANGED << session, frames, analyses >>
       ELSE /\ run' = [run EXCEPT ![r] = [rec EXCEPT !.handled = session[s].exists]]
            /\ session' = [session EXCEPT ![s] =
                   IF @.exists THEN [@ EXCEPT !.processing_status = "failed"] ELSE @]
            /\ IF run[r].kind = "process_video"
               THEN /\ analyses' = [analyses EXCEPT ![s] = @ \o p]
                    /\ frames' = [frames EXCEPT ![s] = Autoflushed(s, p)]
               ELSE UNCHANGED << frames, analyses >>
    /\ UNCHANGED << now, video, summaries, bundles, liveVars, unitVars >>

Next ==
    \/ \E r \in Runs, s \in RecordedIds, n \in 0..MaxFrames : UploadVideo(r, s, n)
    \/ \E r \in Runs : LocalStart(r)
    \/ \E r \in Runs, s \in RecordedIds, bs \in BatchSizeEnv : ProcessVideoStart(r, s, bs)
    \/ \E r \in Runs, s \in RecordedIds, bs \in BatchSizeEnv : AnalyzeFramesStart(r, s, bs)
    \/ \E r \in Runs, opened \in BOOLEAN : ExtractFrames(r, opened)
    \/ \E r \in Runs : AnalyzeQuery(r)
    \/ \E r \in Runs, raw \in EngineOutputs : AnalyzeFrame(r, FALSE, raw)
    \/ \E r \in Runs : AnalyzeFrame(r, TRUE, "")
    \/ \E r \in Runs : GenerateSummary(r)
    \/ \E r \in Runs, fail \in ExportFailures, t \in 0..MaxClock :
           CreateExportBundle(r, fail, t)
    \/ \E r \in Runs : Complete(r)
    \/ \E r \in Runs : HandleError(r)

Spec == Init /\ [][Next]_vars

\* -------------------------------------------------- the export task
\* generate_export_task: create_export_bundle without callback, then the
\* bundle path stored on the session.  The task has no except block.

GenerateExportStart(r, s) ==
    /\ Free(r)
    /\ run' = [run EXCEPT ![r] =
           [IdleRun EXCEPT !.kind = "generate_export", !.sid = s, !.pc = "export"]]
    /\ UNCHANGED << now, video, session, frames, analyses, summaries, bundles,
                    liveVars, unitVars >>

StoreExportPath(r) ==
    /\ run[r].pc = "complete" /\ run[r].kind = "generate_export"
    /\ session' = [session EXCEPT ![run[r].sid] =
           IF @.exists THEN [@ EXCEPT !.export_bundle_path = run[r].bundle] ELSE @]
    /\ run' = [run EXCEPT ![r].pc = "done"]
    /\ UNCHANGED << now, video, frames, analyses, summaries, bundles,
                    liveVars, unitVars >>

\* An uploaded video, its processing in the thread of the upload, and export
\* tasks for the session.
ExportNext ==
    \/ \E r \in Runs, s \in RecordedIds, n \in 0..MaxFrames : UploadVideo(r, s, n)
    \/ \E r \in Runs : LocalStart(r)
    \/ \E r \in Runs, opened \in BOOLEAN : ExtractFrames(r, opened)
    \/ \E r \in Runs : AnalyzeQuery(r)
    \/ \E r \in Runs, raw \in EngineOutputs : AnalyzeFrame(r, FALSE, raw)
    \/ \E r \in Runs : AnalyzeFrame(r, TRUE, "")
    \/ \E r \in Runs : GenerateSummary(r)
    \/ \E r \in Runs, fail \in ExportFailures, t \in 0..MaxClock :
           CreateExportBundle(r, fail, t)
    \/ \E r \in Runs : Complete(r)
    \/ \E r \in Runs : HandleError(r)
    \/ \E r \in Runs, s \in RecordedIds : GenerateExportStart(r, s)
    \/ \E r \in Runs : StoreExportPath(r)

ExportSpec == Init /\ [][ExportNext]_vars

\* ------------------------------------------------------ the live session
\* The handlers of gi.py.  They are coroutines of one event loop: each runs
\* without interruption from its last await to its end.

\* Variant: start_live_session that draws the identifier and keeps the buffer.
StartLiveSessionKeeps(id) ==
    /\ id \in LiveIds \ uuids
    /\ current_session_id' = id
    /\ uuids' = uuids \cup {id}
    /\ UNCHANGED << pipelineVars, timeline, latest_frame, workVars >>

\* start_live_session
StartLiveSession(id) ==
    /\ id \in LiveIds \ uuids
    /\ current_session_id' = id
    /\ uuids' = uuids \cup {id}
    /\ timeline' = <<>>
    /\ UNCHANGED << pipelineVars, latest_frame, workVars >>

\* snapshot, from the image of the request on: the model call answers raw.
Snapshot(raw) ==
    /\ latest_frame' = "image"
    /\ IF At(memo.snapshots, raw).add
       THEN /\ Len(timeline) < MaxTimeline
            /\ timeline' = Append(timeline, TimelineEntry(now, At(memo.snapshots, raw).result))
       ELSE UNCHANGED timeline
    /\ UNCHANGED << pipelineVars, current_session_id, uuids, workVars >>

\* clarify: needs the image of an earlier snapshot; the answer goes to the
\* timeline as it is.
Clarify(raw) ==
    /\ latest_frame # NONE
    /\ Len(timeline) < MaxTimeline
    /\ timeline' = Append(timeline, TimelineEntry(now, "CLARIFY: " \o raw))
    /\ UNCHANGED << pipelineVars, current_session_id, latest_frame, uuids, workVars >>

\* clear_session
ClearSession ==
    /\ timeline' = <<>>
    /\ current_session_id' = NONE
    /\ UNCHANGED << pipelineVars, latest_frame, uuids, workVars >>

\* Variant: a synthetic frame stamped with its position counted from one.
LiveFrameFromOne(idx) ==
    [ frame_index |-> idx, timestamp_ms |-> (idx + 1) * FrameIntervalMs, analyzed |-> TRUE ]

\* save_live_session: the VideoFrame row of the entry at position idx (from 0).
LiveFrame(idx) ==
    [ frame_index |-> idx, timestamp_ms |-> idx * FrameIntervalMs, analyzed |-> TRUE ]

\* The entries save_live_session writes into its archive whatever the request.
FixedEntries ==
    {"metadata.json", "summary.json", "findings.csv", "findings.json", "report.txt"}

LiveBundleName(id, t) == << "live_session", id, t \div TicksPerSecond >>

LiveBundleFile(id, t, include_frames) ==
    [ name |-> LiveBundleName(id, t),
      entries |-> FixedEntries \cup
                    (IF include_frames /\ latest_frame # NONE THEN {"frames"} ELSE {}),
      include_frames |-> include_frames,
      total_frames |-> Len(timeline),
      frames_analyzed |-> Len(timeline),
      export_generated_at |-> t ]

LiveFailures == {"none", "rows", "summary", "export"}

\* The key_findings of the SessionSummary save_live_session adds: for each of
\* the last ten entries of the buffer the Finding value that the loop above
\* stored with its row (the first "Finding:" line of the structured text, or
\* the text itself), cut to 200 characters.
LiveKeyWindow == 10
LiveKeyChars == 200
LiveKeyFindings(rows) ==
    LET first == IF Len(rows) > LiveKeyWindow THEN Len(rows) - LiveKeyWindow + 1 ELSE 1 IN
    [ j \in 1..(Len(rows) - first + 1) |-> Take(rows[first + j - 1].finding, LiveKeyChars) ]

\* Variant: a save that is turned away only for want of a session or of
\* entries.
SaveRejectedUnlessNew(id) == id = NONE \/ timeline = <<>>

\* save_live_session persists nothing: no session is active, the buffer is
\* empty, or a video_sessions row with this id (the primary key) exists and
\* the commit of the session row raises.
SaveRejected(id) == id = NONE \/ timeline = <<>> \/ session[id].exists

\* save_live_session.  fail: the step that raised, if any: the commit of the
\* frames and analyses, the commit of the summary, the export.  The session
\* row is committed first; a failure of a later commit leaves it, and a
\* failed export is only logged.
SaveLiveSession(include_frames, fail, t) ==
    /\ t >= now /\ now' = t
    /\ LET id == current_session_id
           n == Len(timeline)
           high == Cardinality({ k \in 1..n :
                       At(memo.saved, timeline[k]).risk_level = "high" })
       IN
       IF SaveRejected(id)
       THEN UNCHANGED << session, frames, analyses, summaries, bundles >>
       ELSE /\ session' = [session EXCEPT ![id] =
                   [NoRow EXCEPT !.exists = TRUE, !.session_type = "live",
                       !.processing_status = "completed", !.processing_progress = 100,
                       !.frame_count = n,
                       !.export_bundle_path =
                           IF fail = "none" THEN LiveBundleName(id, t) ELSE NONE]]
            /\ IF fail = "rows"
               THEN UNCHANGED << frames, analyses >>
               ELSE /\ frames' = [frames EXCEPT ![id] = [k \in 1..n |-> LiveFrame(k - 1)]]
                    /\ analyses' = [analyses EXCEPT ![id] =
                           [k \in 1..n |-> [At(memo.saved, timeline[k]) EXCEPT !.frame_id = k]]]
            /\ IF fail \in {"rows", "summary"}
               THEN UNCHANGED summaries
               ELSE summaries' = [summaries EXCEPT ![id] =
                        <<[ key_findings |-> LiveKeyFindings(analyses'[id]),
                            total_frames_analyzed |-> n,
                            high_risk_findings_count |-> high ]>>]
            /\ IF fail = "none"
               THEN bundles' = SaveExportBundle(bundles, LiveBundleFile(id, t, include_frames))
               ELSE UNCHANGED bundles
    /\ UNCHANGED << video, run, liveVars, unitVars >>

LiveNext ==
    \/ \E id \in LiveIds : StartLiveSession(id) /\ UNCHANGED historyVars
    \/ \E raw \in EngineOutputs : Snapshot(raw) /\ UNCHANGED historyVars
    \/ \E raw \in ClarifyOutputs : Clarify(raw) /\ UNCHANGED historyVars
    \/ \E inc \in BOOLEAN, fail \in LiveFailures, t \in now..MaxClock :
           SaveLiveSession(inc, fail, t)
    \/ ClearSession /\ UNCHANGED historyVars

LiveSpec == Init /\ [][LiveNext]_vars

\* ------------------------------------------- TimelineStore among threads
\* add and clear called from several threads.  add runs in three steps: it
\* stamps and builds the entry, it loads the list self.timeline names, it
\* appends to the list it loaded (list.append is one indivisible call).
\* clear binds self.timeline to a new empty list.  timeline is the content
\* of the list self.timeline names; a list no longer named is out of reach.

AddFindings == {OutLow, OutHigh}

\* timestamp = datetime.now()...; entry = f"[{timestamp}] {finding}"
AddStamp(th, finding, t) ==
    /\ adder[th].pc = "idle"
    /\ Len(appends) + Cardinality({ a \in Adders : adder[a].pc # "idle" }) < MaxTimeline
    /\ t >= now /\ now' = t
    /\ adder' = [adder EXCEPT ![th] =
                   [NoAdd EXCEPT !.pc = "stamped", !.entry = TimelineEntry(t, finding)]]
    /\ UNCHANGED << video, session, frames, analyses, summaries, bundles, run,
                    liveVars, summaryVars, samplerVars, list_id, appends, textVars, historyVars, relayVars, batchVars >>

\* self.timeline is evaluated: the thread holds the list named now.
AddLoad(th) ==
    /\ adder[th].pc = "stamped"
    /\ adder' = [adder EXCEPT ![th].pc = "loaded", ![th].loaded = list_id]
    /\ UNCHANGED << pipelineVars, liveVars, summaryVars, samplerVars, list_id, appends, textVars, historyVars, relayVars, batchVars >>

\* Variant: an append that always lands in the list named at the time it runs.
AppendLandsAlways(th) == TRUE

\* The list the thread loaded is still the one self.timeline names.
AppendLands(th) == adder[th].loaded = list_id

\* .append(entry) on the list loaded.
AddAppend(th) ==
    /\ adder[th].pc = "loaded"
    /\ timeline' = IF AppendLands(th) THEN Append(timeline, adder[th].entry) ELSE timeline
    /\ appends' = Append(appends, [ entry |-> adder[th].entry,
                                     stamped_before |-> adder[th].stamped_before,
                                     crossed |-> adder[th].crossed ])
    /\ adder' = [adder EXCEPT ![th] = NoAdd]
    /\ UNCHANGED << pipelineVars, current_session_id, latest_frame, uuids,
                    summaryVars, samplerVars, list_id, textVars, historyVars, relayVars, batchVars >>

\* TimelineStore.clear: self.timeline = []
StoreClear ==
    /\ list_id < MaxClears
    /\ list_id' = list_id + 1
    /\ timeline' = <<>>
    /\ appends' = <<>>
    /\ adder' = [th \in Adders |->
                   [adder[th] EXCEPT
                      !.stamped_before = @ \/ adder[th].pc \in {"stamped", "loaded"},
                      !.crossed = @ \/ adder[th].pc = "loaded"]]
    /\ UNCHANGED << pipelineVars, current_session_id, latest_frame, uuids,
                    summaryVars, samplerVars, textVars, historyVars, relayVars, batchVars >>

TimelineNext ==
    \/ \E th \in Adders, f \in AddFindings, t \in 0..MaxClock : AddStamp(th, f, t)
    \/ \E th \in Adders : AddLoad(th)
    \/ \E th \in Adders : AddAppend(th)
    \/ StoreClear

TimelineSpec == Init /\ [][TimelineNext]_vars

\* --------------------------------------------------- extract_frames alone
\* The sampling loop of VideoProcessor.extract_frames on an opened source:
\* one step per cap.read().

\* CAP_PROP_FPS of the sources (0 when the container does not tell) and the
\* TARGET_FPS settings.
SourceFpsValues == {0, 1, 25, 30}
TargetFpsValues == {1, 2}

\* int((frame_index / original_fps) * 1000) is computed in IEEE-754 doubles:
\* the quotient is rounded, then the product, then the fraction is cut off.
\* For these <<original_fps, frame_index>> the result is one below
\* frame_index * 1000 \div original_fps; for the other frame indices up to
\* 1200 at these rates it is equal to it.
RoundsBelow ==
    { <<25, 201>>, <<25, 203>>, <<25, 402>>, <<25, 406>>, <<25, 803>>,
      <<25, 804>>, <<25, 811>>, <<25, 812>>, <<25, 819>>, <<30, 969>> }

TimestampMs(i, fps) ==
    ((i * 1000) \div fps) - (IF <<fps, i>> \in RoundsBelow THEN 1 ELSE 0)

RECURSIVE Decimal(_)
Decimal(n) ==
    IF n < 10 THEN Char(Digits, n + 1)
    ELSE Decimal(n \div 10) \o Char(Digits, (n % 10) + 1)

\* f"{n:0wd}"
ZeroPadded(n, w) == Rep("0", w - Len(Decimal(n))) \o Decimal(n)

\* f"{hours:02d}:{minutes:02d}:{seconds:02d}.{milliseconds:03d}"
TimestampFormatted(ms) ==
    ZeroPadded(ms \div 3600000, 2) \o ":" \o
    ZeroPadded((ms % 3600000) \div 60000, 2) \o ":" \o
    ZeroPadded((ms % 60000) \div 1000, 2) \o "." \o
    ZeroPadded(ms % 1000, 3)

\* The VideoFrame row of source frame i; source_index is not a column.
SampledFrame(k, i, fps) ==
    [ frame_index |-> k, source_index |-> i,
      timestamp_ms |-> TimestampMs(i, fps),
      timestamp_formatted |-> TimestampFormatted(TimestampMs(i, fps)) ]

\* Lines 60-69: the properties of the source and the sampling interval.
\* total_frames / original_fps divides by zero when the rate is 0.
SamplerStart ==
    /\ cap.state = "opened"
    /\ cap' = IF cap.fps = 0 THEN [cap EXCEPT !.state = "ZeroDivisionError"]
              ELSE [cap EXCEPT !.state = "loop",
                               !.frame_interval = cap.fps \div cap.target_fps]
    /\ UNCHANGED << pipelineVars, liveVars, summaryVars, storeVars, sampled, textVars, historyVars, relayVars, batchVars >>

\* One pass of the while loop; ret is what cap.read() tells.
ReadFrame(ret) ==
    /\ cap.state = "loop"
    /\ ret => cap.frame_index < MaxSourceFrames
    /\ IF ~ret
       THEN /\ cap' = [cap EXCEPT !.state = "returned"]
            /\ UNCHANGED sampled
       ELSE IF cap.frame_interval = 0
       THEN /\ cap' = [cap EXCEPT !.state = "ZeroDivisionError"]
            /\ UNCHANGED sampled
       ELSE IF cap.frame_index % cap.frame_interval = 0
       THEN /\ sampled' = Append(sampled,
                   SampledFrame(cap.frames_extracted, cap.frame_index, cap.fps))
            /\ cap' = [cap EXCEPT !.frames_extracted = @ + 1, !.frame_index = @ + 1]
       ELSE /\ cap' = [cap EXCEPT !.frame_index = @ + 1]
            /\ UNCHANGED sampled
    /\ UNCHANGED << pipelineVars, liveVars, summaryVars, storeVars, textVars, historyVars, relayVars, batchVars >>

SamplerInit ==
    /\ PipelineInit
    /\ LiveInit
    /\ SummaryIdle
    /\ StoreIdle
    /\ OriginIdle
    /\ RelayIdle
    /\ BatchIdle
    /\ memo = NoTables
    /\ \E f \in SourceFpsValues, t \in TargetFpsValues :
          cap = [NoCapture EXCEPT !.fps = f, !.target_fps = t, !.state = "opened"]
    /\ sampled = <<>>

SamplerNext ==
    \/ SamplerStart
    \/ \E ret \in BOOLEAN : ReadFrame(ret)

SamplerSpec == SamplerInit /\ [][SamplerNext]_vars

\* ------------------------------------------------- generate_summary alone
\* VideoProcessor.generate_summary called on the FrameAnalysis rows of one
\* session.

\* analysis.finding[:50] in the key, [:100] in the entry, key_findings[:10].
KeyChars == 50
ShownChars == 100
MaxKeyFindings == 10

Finding(loc, text, risk) ==
    [ anatomical_location |-> loc, finding |-> text, risk_level |-> risk ]

\* f"{analysis.anatomical_location}_{analysis.finding[:50]}"
FindingKey(a) == a.anatomical_location \o "_" \o Take(a.finding, KeyChars)

\* f"{analysis.anatomical_location}: {analysis.finding[:100]}"
FindingEntry(a) == a.anatomical_location \o ": " \o Take(a.finding, ShownChars)

\* The loop over the rows: the positions of the rows whose entry is appended
\* to key_findings, in order; seen is seen_findings.
RECURSIVE KeyLoop(_, _, _)
KeyLoop(a, k, seen) ==
    IF k > Len(a) THEN <<>>
    ELSE IF a[k].risk_level \in {"high", "medium"} /\ FindingKey(a[k]) \notin seen
         THEN <<k>> \o KeyLoop(a, k + 1, seen \cup {FindingKey(a[k])})
         ELSE KeyLoop(a, k + 1, seen)

\* The SessionSummary generate_summary builds; `from` is not a column: it
\* names the rows the entries of key_findings were made from.
SessionSummaryOf(a) ==
    LET kept == Take(KeyLoop(a, 1, {}), MaxKeyFindings) IN
    [ key_findings |-> [ j \in 1..Len(kept) |-> FindingEntry(a[kept[j]]) ],
      from |-> kept,
      total_frames_analyzed |-> Len(a),
      high_risk_findings_count |->
          Cardinality({ k \in 1..Len(a) : a[k].risk_level = "high" }) ]

\* One call of generate_summary: ValueError without rows; the commit of the
\* new row fails on UNIQUE session_id when the session has a summary.
GenerateSummaryCall ==
    /\ Len(sum_results) < MaxCalls
    /\ IF sum_analyses = <<>>
       THEN /\ sum_results' = Append(sum_results, [raised |-> "ValueError"])
            /\ UNCHANGED sum_rows
       ELSE IF sum_rows # <<>>
       THEN /\ sum_results' = Append(sum_results, [raised |-> "IntegrityError"])
            /\ UNCHANGED sum_rows
       ELSE /\ sum_rows' = <<SessionSummaryOf(sum_analyses)>>
            /\ sum_results' = Append(sum_results,
                   [raised |-> NONE, summary |-> SessionSummaryOf(sum_analyses)])
    /\ UNCHANGED << pipelineVars, liveVars, samplerVars, storeVars, sum_analyses, textVars, historyVars, relayVars, batchVars >>

\* The rows the calls are tried on: up to MaxPrefix rows of SampleFindings,
\* then h high, m medium and l low rows, each at a location of its own.
LocA == "A"
LocAB == "A_B"
TextC == "C"
TextBC == "B_C"
TextLongY == Rep("x", KeyChars) \o "y"
TextLongZ == Rep("x", KeyChars) \o "z"

SampleFindings ==
    { Finding(LocAB, TextC, "medium"), Finding(LocA, TextBC, "medium"),
      Finding(LocA, TextLongY, "medium"), Finding(LocA, TextLongZ, "high"),
      Finding(LocA, TextC, "low") }

Prefixes == UNION { [1..n -> SampleFindings] : n \in 0..MaxPrefix }

Numbered(h, m, l) ==
    [ k \in 1..(h + m + l) |->
        Finding(Rep("L", k), TextC,
                IF k <= h THEN "high" ELSE IF k <= h + m THEN "medium" ELSE "low") ]

SummaryInit ==
    /\ PipelineInit
    /\ LiveInit
    /\ SamplerIdle
    /\ StoreIdle
    /\ OriginIdle
    /\ RelayIdle
    /\ BatchIdle
    /\ memo = NoTables
    /\ \E p \in Prefixes, h \in 0..MaxHigh, m \in 0..MaxMedium, l \in 0..MaxLow :
          sum_analyses = p \o Numbered(h, m, l)
    /\ sum_rows = <<>>
    /\ sum_results = <<>>

SummaryNext == GenerateSummaryCall

SummarySpec == SummaryInit /\ [][SummaryNext]_vars

\* ------------------------------------------------------------- the claims

Active(r) == ~Free(r)

Status(s) == session[s].processing_status

NonDecreasing(q) == \A a, b \in 1..Len(q) : a <= b => q[a] <= q[b]

C2_TerminalIsSink ==
    [][ \A s \in RecordedIds :
          Status(s) \in {"completed", "failed"} =>
            /\ session'[s].processing_status = Status(s)
            /\ analyses'[s] = analyses[s] ]_vars

\* C3: a trigger of process_video_task on a session that is processing, with
\* a pipeline run of that session under way, is rejected: it starts no second
\* run.
C3_OneRunPerSession ==
    [][ \A r \in Runs :
          (Free(r) /\ run'[r].pc \notin {"idle", "done"}
             /\ run'[r].kind = "process_video")
            => ~ ( /\ session[run'[r].sid].processing_status = "processing"
                   /\ \E r2 \in Runs \ {r} :
                        /\ Active(r2) /\ run[r2].sid = run'[r].sid
                        /\ run[r2].kind \in {"local", "process_video"} ) ]_vars

\* C4: a recorded session becomes completed only in the last step of a run in
\* which sampling, analysis, summary and export all returned without error,
\* and it has progress 100 in the state in which it is completed.
C4_CompletedAfterAllStages ==
    [][ \A s \in RecordedIds :
          (session'[s].processing_status = "completed" /\ Status(s) # "completed") =>
            /\ session'[s].processing_progress = 100
            /\ \E r \in Runs :
                 /\ run[r].sid = s /\ run[r].pc = "complete" /\ run'[r].pc = "done"
                 /\ run[r].stages = Stages /\ run[r].err = NONE ]_vars

\* A recorded session is completed with progress 100 by a run that went
\* through the four stages.
C4_Witness ==
    \E r \in Runs :
        /\ run[r].pc = "done" /\ run[r].stages = Stages
        /\ Status(run[r].sid) = "completed"
        /\ session[run[r].sid].processing_progress = 100

\* C5: a run stopped by an error of sampling, analysis or summary generation
\* ends with the session failed, and no session goes back to pending from
\* processing, completed or failed.
C5_ErrorEndsFailed ==
    [][ /\ \A r \in Runs :
             (run[r].pc = "handler" /\ run'[r].pc = "done"
                /\ "summary" \notin run[r].stages /\ session[run[r].sid].exists)
               => session'[run[r].sid].processing_status = "failed"
        /\ \A s \in RecordedIds :
             Status(s) \in {"processing", "completed", "failed"}
               => session'[s].processing_status # "pending" ]_vars

AnalyzedFrames(s) == { k \in FrameIds(s) : frames[s][k].analyzed }

\* C6: once analyze_frames_batch has returned normally for a session, the
\* session has as many analyzed frames as Findings and every analyzed frame
\* has exactly one Finding.
C6_AnalyzedMatchesFindings ==
    \A r \in Runs :
        "analysis" \in run[r].stages =>
            LET s == run[r].sid IN
            /\ Cardinality(AnalyzedFrames(s)) = Len(analyses[s])
            /\ \A k \in AnalyzedFrames(s) : Cardinality(AnalysesOf(s, k)) = 1

\* analyze_frames_batch has returned normally and left two analyzed frames,
\* each with its Finding.
C6_Witness ==
    \E r \in Runs :
        /\ "analysis" \in run[r].stages
        /\ Cardinality(AnalyzedFrames(run[r].sid)) = 2
        /\ Len(analyses[run[r].sid]) = 2

IsRaise(t) == t.called /\ t.raised

\* C7: model text that is not empty and holds no structured block never stops
\* the batch: the run that received it goes on without an error.
C7_RejectionDoesNotFail ==
    \A r \in Runs :
        (/\ run[r].last.called /\ ~run[r].last.raised /\ run[r].last.text # ""
         /\ At(memo.parsed, run[r].last.text).none)
            => (run[r].err = NONE /\ Status(run[r].sid) # "failed")

\* C8: a model call that raises for one frame never stops the batch: the run
\* goes on without an error and the session is not failed because of it.
C8_InferenceFailureDoesNotFail ==
    \A r \in Runs :
        IsRaise(run[r].last) => (run[r].err = NONE /\ Status(run[r].sid) # "failed")

Range(q) == { q[k] : k \in 1..Len(q) }

\* C9: analyze_frames_batch works on exactly the frames that had analyzed =
\* false when it was invoked: none of the frames analyzed before is in its
\* list or gets a pending row, the two sets make up the frames of the
\* session, each frame analyzed before keeps exactly one Finding, and no step
\* changes a stored Finding.
C9_ResumeSkipsAnalyzed ==
    [][ /\ \A r \in Runs :
             run'[r].pc = "analyze" =>
               LET s == run'[r].sid IN
               /\ Range(run'[r].todo) \cap run'[r].seen = {}
               /\ Range(run'[r].todo) \cup run'[r].seen = 1..Len(frames'[s])
               /\ \A k \in 1..Len(run'[r].pend) :
                    run'[r].pend[k].frame_id \notin run'[r].seen
               /\ \A f \in run'[r].seen :
                    Cardinality({ k \in 1..Len(analyses'[s]) :
                                    analyses'[s][k].frame_id = f }) = 1
        /\ \A s \in RecordedIds :
             /\ Len(analyses'[s]) >= Len(analyses[s])
             /\ \A k \in 1..Len(analyses[s]) : analyses'[s][k] = analyses[s][k] ]_vars

\* A second invocation found a frame analyzed, skipped it, analyzed the other
\* frame and returned.
C9_Witness ==
    \E r \in Runs :
        /\ "analysis" \in run[r].stages /\ run[r].seen # {}
        /\ AnalyzedFrames(run[r].sid) \ run[r].seen # {}
        /\ \A k \in FrameIds(run[r].sid) : Cardinality(AnalysesOf(run[r].sid, k)) = 1

\* C10: a run whose export assembly failed, after analysis and summary
\* generation succeeded, ends with the session completed.
C10_ExportFailureKeepsCompleted ==
    [][ \A r \in Runs :
          (run[r].pc = "handler" /\ run'[r].pc = "done"
             /\ run[r].err = "StorageError"
             /\ {"analysis", "summary"} \subseteq run[r].stages)
            => session'[run[r].sid].processing_status = "completed" ]_vars

\* The elements of the set S of numbers, ascending.
RECURSIVE Ascending(_)
Ascending(S) ==
    IF S = {} THEN <<>> ELSE <<Min(S)>> \o Ascending(S \ {Min(S)})

IsKey(x) == x.risk_level \in {"medium", "high"}

\* Two Findings are duplicates: same location, same first 50 characters.
Duplicates(x, y) ==
    /\ x.anatomical_location = y.anatomical_location
    /\ Take(x.finding, KeyChars) = Take(y.finding, KeyChars)

\* The medium and high Findings of a without a duplicate before them, in
\* order, the first ten at most.
FirstSeenKeys(a) ==
    Take(Ascending({ k \in 1..Len(a) :
                       /\ IsKey(a[k])
                       /\ \A j \in 1..(k - 1) : IsKey(a[j]) => ~Duplicates(a[j], a[k]) }),
         MaxKeyFindings)

Succeeded(c) == sum_results[c].raised = NONE

\* C11: the keyFindings of a generated summary are made of exactly the medium
\* and high risk Findings, one per (location, first 50 characters of the
\* text), in first-seen order, the first 10 at most, and highRiskCount counts
\* the high risk Findings; 3 high, 2 medium and 7 low Findings of distinct
\* keys give 5 keyFindings and highRiskCount 3.
C11_KeyFindingsDeduplicated ==
    \A c \in 1..Len(sum_results) :
        Succeeded(c) =>
            LET sm == sum_results[c].summary IN
            /\ sm.from = FirstSeenKeys(sum_analyses)
            /\ sm.key_findings =
                   [ j \in 1..Len(sm.from) |-> FindingEntry(sum_analyses[sm.from[j]]) ]
            /\ sm.high_risk_findings_count =
                   Cardinality({ k \in 1..Len(sum_analyses) :
                                   sum_analyses[k].risk_level = "high" })
            /\ sum_analyses = Numbered(3, 2, 7) =>
                   (Len(sm.key_findings) = 5 /\ sm.high_risk_findings_count = 3)

\* C12: two runs of summary generation on the same Findings both yield a
\* keyFindings list, and the same one: same elements, order and length.
C12_SummaryIdempotent ==
    \A c, d \in 1..Len(sum_results) :
        sum_analyses # <<>> =>
            /\ Succeeded(c) /\ Succeeded(d)
            /\ sum_results[c].summary.key_findings = sum_results[d].summary.key_findings

\* C13: on a session with Findings every generate_summary call succeeds, and
\* after it the session has exactly one Summary, the one of the latest call.
C13_SummaryReplaced ==
    (sum_analyses # <<>> /\ sum_results # <<>>) =>
        /\ \A c \in 1..Len(sum_results) : Succeeded(c)
        /\ Len(sum_rows) = 1
        /\ sum_rows[1] = sum_results[Len(sum_results)].summary

\* C14: an export task that creates a bundle leaves every bundle file that
\* was in storage as it was (none deleted, none changed), also when its
\* bundle is made in the second of an earlier one, and the task stores the
\* new bundle as the session's bundle reference.
C14_ExportKeepsEarlierBundles ==
    [][ \A r \in Runs :
          run[r].kind = "generate_export" =>
            /\ (run[r].pc = "export" /\ run'[r].pc = "complete")
                  => /\ bundles \subseteq bundles'
                     /\ \E f \in bundles' : f.name = run'[r].bundle
            /\ (run[r].pc = "complete" /\ run'[r].pc = "done")
                  => session'[run[r].sid].export_bundle_path = run[r].bundle ]_vars

\* C15: every export bundle in storage holds the fixed entries (metadata,
\* summary, findings as JSON and as CSV, report), and beyond them only the
\* frame-image directory, and this only when it was asked for.
C15_BundleEntriesFixed ==
    \A f \in bundles :
        /\ FixedEntries \subseteq f.entries
        /\ f.entries \ FixedEntries # {} =>
              (f.entries \ FixedEntries = {"frames"} /\ f.include_frames)

\* C16: with step = floor(sourceFps / targetFps), the frames extract_frames
\* has emitted after reading n source frames are the source frames i < n with
\* i mod step = 0, in order; the k-th of them (from 0) has index k and
\* timestamp floor(i * 1000 / sourceFps) ms, rendered HH:MM:SS.mmm; a source
\* of 900 frames at 30 fps sampled at 1 fps gives 30 frames with timestamps
\* 00:00:00.000, 00:00:01.000, ..., 00:00:29.000.
C16_SamplingRule ==
    (cap.state \in {"loop", "returned"} /\ cap.fps \div cap.target_fps > 0) =>
        LET step == cap.fps \div cap.target_fps IN
        /\ Len(sampled) = Cardinality({ i \in 0..(cap.frame_index - 1) : i % step = 0 })
        /\ \A k \in 1..Len(sampled) :
              LET i == (k - 1) * step
                  ms == (i * 1000) \div cap.fps IN
              /\ sampled[k].source_index = i
              /\ sampled[k].frame_index = k - 1
              /\ sampled[k].timestamp_ms = ms
              /\ sampled[k].timestamp_formatted = TimestampFormatted(ms)
        /\ (cap.fps = 30 /\ cap.target_fps = 1 /\ cap.state = "returned"
              /\ cap.frame_index = 900) =>
              /\ Len(sampled) = 30
              /\ \A k \in 1..30 :
                    sampled[k].timestamp_formatted =
                        "00:00:" \o ZeroPadded(k - 1, 2) \o ".000"

\* C17: the frames of a session never share an index, and their indices are
\* 0..n-1 without a gap, whatever number of runs extracted frames for it.
C17_FrameIndicesUnique ==
    \A s \in SessionIds :
        /\ \A j, k \in FrameIds(s) :
              frames[s][j].frame_index = frames[s][k].frame_index => j = k
        /\ { frames[s][k].frame_index : k \in FrameIds(s) } = 0..(Len(frames[s]) - 1)

\* A second run went through extract_frames for a session that had frames.
C17_Witness ==
    \E r \in Runs :
        /\ run[r].err = "IntegrityError" /\ run[r].stages = {}
        /\ Len(frames[run[r].sid]) = 2

\* C18: when the source cannot be opened, the step that finds it adds no
\* frame and goes to the error handling; the run then never reaches analysis,
\* summary or export, writes no row and no bundle, and ends with the session
\* failed.
C18_UnreadableSourceFails ==
    [][ \A r \in Runs :
          ~run'[r].opened =>
            /\ run'[r].pc \in {"handler", "done"}
            /\ run'[r].stages = {} /\ run'[r].pend = <<>>
            /\ run[r].opened => (frames' = frames /\ run'[r].pc = "handler")
            /\ (run[r].pc = "handler" /\ run'[r].pc = "done") =>
                  /\ session'[run[r].sid].processing_status = "failed"
                  /\ frames' = frames /\ analyses' = analyses
                  /\ summaries' = summaries /\ bundles' = bundles ]_vars

\* A run that could not open its source has ended, the session is failed and
\* has no frame.
C18_Witness ==
    \E r \in Runs :
        /\ ~run[r].opened /\ run[r].pc = "done"
        /\ Status(run[r].sid) = "failed" /\ frames[run[r].sid] = <<>>

\* C19: a step in which start_live_session draws an identifier leaves the
\* buffer empty and the current identifier set to that identifier, which is
\* not none, was never current before and differs from the one it replaces;
\* any other step that changes the identifier or shortens the buffer (only
\* clear_session does) leaves the buffer empty and the identifier none.
C19_StartAndClear ==
    [][ /\ uuids' # uuids =>
              /\ timeline' = <<>>
              /\ current_session_id' # NONE
              /\ current_session_id' \in uuids' \ uuids
              /\ current_session_id' # current_session_id
        /\ (uuids' = uuids /\ (current_session_id' # current_session_id
                                 \/ Len(timeline') < Len(timeline))) =>
              /\ timeline' = <<>>
              /\ current_session_id' = NONE ]_vars

\* A second session has been started after the first one was saved from a
\* buffer that held entries.
C19_Witness ==
    /\ session["live1"].exists /\ frames["live1"] # <<>>
    /\ current_session_id = "live2"
    /\ timeline = <<>>

\* An append whose list was not replaced between its load and its call.
Landed(a) == ~a.crossed

EntriesOf(log) == [k \in 1..Len(log) |-> log[k].entry]

WholeEntries == { TimelineEntry(t, f) : t \in 0..MaxClock, f \in AddFindings }

\* C20: with add and clear interleaved at will, the buffer is the sequence
\* of the entries appended since the latest clear, whole and in the order of
\* their appends; of these an add that loaded the list before the clear and
\* appended after it is absent, any other is present.
C20_BufferIsAppendsSinceClear ==
    /\ timeline = EntriesOf(SelectSeq(appends, Landed))
    /\ \A k \in 1..Len(timeline) : timeline[k] \in WholeEntries

\* Two adds stamped before a clear appended after it: one is absent, the
\* other present.
C20_Witness ==
    /\ \E k \in 1..Len(appends) : appends[k].stamped_before /\ appends[k].crossed
    /\ \E k \in 1..Len(appends) : appends[k].stamped_before /\ ~appends[k].crossed
    /\ Len(timeline) = 1

\* ------------------------------------------------------------- live save

\* The step is a save_live_session that committed the rows of session id.
SavedRowsOf(id) == ~session[id].exists /\ session'[id].exists /\ frames'[id] # <<>>

\* C21: a live save that commits its rows creates, for the buffer entry at
\* position p (from 0), one frame with index p, timestamp p x 3000 ms and
\* analyzed set, and exactly one analysis bound to that frame and made from
\* that entry, in buffer order; it creates as many frames and as many
\* analyses as the buffer has entries.
C21_LiveSaveRows ==
    [][\A id \in LiveIds : SavedRowsOf(id) =>
          /\ Len(frames'[id]) = Len(timeline)
          /\ Len(analyses'[id]) = Len(timeline)
          /\ \A k \in 1..Len(timeline) :
                /\ frames'[id][k] =
                      [ frame_index |-> k - 1, timestamp_ms |-> (k - 1) * 3000,
                        analyzed |-> TRUE ]
                /\ { j \in 1..Len(analyses'[id]) : analyses'[id][j].frame_id = k } = {k}
                /\ analyses'[id][k].raw_output = timeline[k]]_vars

\* A buffer of two different entries was saved.
C21_Witness ==
    \E id \in LiveIds :
        /\ Len(frames[id]) = 2 /\ Len(analyses[id]) = 2
        /\ frames[id][2].timestamp_ms = 3000
        /\ analyses[id][1].raw_output # analyses[id][2].raw_output

\* A committed live session with its rows and its summary.
LiveSummarised(id) ==
    session[id].exists /\ analyses[id] # <<>> /\ summaries[id] # <<>>

\* C22: the key findings of the Summary written by live save are what
\* generate_summary computes from the same Findings: the medium- and high-risk
\* ones, one per (location, first 50 characters of finding), at most 10, in
\* first-seen order.
C22_LiveSummaryAsGenerated ==
    \A id \in LiveIds : LiveSummarised(id) =>
        summaries[id][1].key_findings = SessionSummaryOf(analyses[id]).key_findings

\* ------------------------------------------------- one text through the code

\* The texts of the tables of a behaviour.
MemoTexts == { p[2] : p \in memo.generated }

\* The model generates one text; the engine hands back what analyze makes of
\* it, to the file path and to the live path alike.
TablesFor(returned) ==
    TablesOf(returned, { p[2] : p \in returned }, { p[2] : p \in returned })

ExtractorInit ==
    /\ PipelineInit
    /\ LiveInit
    /\ SummaryIdle
    /\ SamplerIdle
    /\ StoreIdle
    /\ OriginIdle
    /\ RelayIdle
    /\ BatchIdle
    /\ \E generated \in RawTexts : memo = TablesFor(Returned({generated}))

\* A recorded video of one frame up to its analysis, and a live session up to
\* its save, on the text.
ExtractorNext ==
    \/ \E r \in Runs, s \in RecordedIds : UploadVideo(r, s, 1)
    \/ \E r \in Runs : LocalStart(r)
    \/ \E r \in Runs : ExtractFrames(r, TRUE)
    \/ \E r \in Runs : AnalyzeQuery(r)
    \/ \E r \in Runs, raw \in MemoTexts : AnalyzeFrame(r, FALSE, raw)
    \/ \E id \in LiveIds : StartLiveSession(id) /\ UNCHANGED historyVars
    \/ \E raw \in MemoTexts : Snapshot(raw) /\ UNCHANGED historyVars
    \/ \E raw \in MemoTexts : Clarify(raw) /\ UNCHANGED historyVars
    \/ SaveLiveSession(FALSE, "none", now)

ExtractorSpec == ExtractorInit /\ [][ExtractorNext]_vars

\* ------------------------------------------------------ claims: one text

\* A live session's rows are in the database.
LiveRowsStored == \E id \in LiveIds : analyses[id] # <<>>

\* C23: in the live path nothing the extractor rejects is stored: when the
\* buffer holds an entry, or a live save has persisted a Finding, the text it
\* came from is one extract_structured_answer returned a populated record
\* for.
C23_OnlyExtractedStored ==
    (timeline # <<>> \/ LiveRowsStored) =>
        \A raw \in MemoTexts : At(memo.extracted, raw) # ""

RiskLevels == {"low", "medium", "high"}

\* C24: every persisted Finding, written by analyze_frames_batch or by live
\* save, has a risk level that is one of low, medium, high, whatever the
\* model text.
C24_RiskLevelInRange ==
    \A s \in SessionIds : \A k \in 1..Len(analyses[s]) :
        analyses[s][k].risk_level \in RiskLevels

\* The default confidence of a risk level, in hundredths.
ConfidenceBand == [ high |-> 85, medium |-> 80, low |-> 75 ]

\* C25: a persisted Finding whose model text names no confidence has the
\* confidence of its risk level: 0.85 for high, 0.80 for medium, 0.75 for
\* low, in the file path and in live save (no text here names a confidence).
C25_ConfidenceFollowsRisk ==
    \A s \in SessionIds : \A k \in 1..Len(analyses[s]) :
        analyses[s][k].risk_level \in RiskLevels =>
            analyses[s][k].confidence_score = ConfidenceBand[analyses[s][k].risk_level]

\* The model generated the unfilled label skeleton.
SkeletonGenerated == \E p \in memo.generated : p[1] \in Skeletons

BadMatch(fields) == fields # <<>> /\ BadFinding(fields[1])

\* C27: when the pattern matches and the Finding field is empty, shorter than
\* 3 characters or holds a prompt word, extraction rejects: a snapshot's
\* extract_structured_answer returns "" for such a text, and the
\* _parse_analysis call of analyze_frames_batch returns no populated record
\* for it either.
C27_BadFindingRejected ==
    /\ latest_frame # NONE =>
           \A raw \in MemoTexts :
               BadMatch(At(memo.matched, raw)) => At(memo.extracted, raw) = ""
    /\ \A r \in Runs :
           (run[r].last.called /\ ~run[r].last.raised
              /\ ~At(memo.parsed, run[r].last.text).none)
           => ~BadFinding(At(memo.parsed, run[r].last.text).finding)

\* The half of it that is about extract_structured_answer.
LiveExtractorRejectsBadFinding ==
    latest_frame # NONE =>
        \A raw \in MemoTexts :
            BadMatch(At(memo.matched, raw)) => At(memo.extracted, raw) = ""

\* A snapshot was taken of a text whose Finding field is not acceptable.
BadMatchSnapshot ==
    latest_frame # NONE /\ \E raw \in MemoTexts : BadMatch(At(memo.matched, raw))

\* The vocabulary keywords that occur in a text.
KeywordsIn(text) == { kw \in FeatureKeywords : Contains(ToLower(text), kw) }

\* C28: the detected features stored with a Finding of the file path are the
\* vocabulary keywords that occur in the raw model text; an answer that
\* mentions erythema is stored with erythema among them.
C28_FeaturesAreKeywords ==
    \A s \in RecordedIds : \A k \in 1..Len(analyses[s]) :
        analyses[s][k].detected_features = KeywordsIn(analyses[s][k].raw_output)

\* ----------------------------------------------------- claims: completion

\* C29: when a pipeline run whose export bundle was assembled completes its
\* recorded session, the session's export bundle reference is the bundle of
\* that run, in process_video_task and in process_in_background alike.
C29_CompletedHasBundle ==
    [][ \A r \in Runs :
          (run[r].pc = "complete" /\ run'[r].pc = "done" /\ run[r].bundle # NONE)
            => /\ session'[run[r].sid].processing_status = "completed"
               /\ run[r].bundle = session'[run[r].sid].export_bundle_path ]_vars

\* A worker that is alive takes every step of its code that it can take.
\* The one step it waits for is the return of the inference call: neither
\* analyze_frames_batch nor process_in_background nor the engine puts a time
\* limit on it, so it comes with no fairness.
WorkerFairness ==
    \A r \in Runs :
        /\ WF_vars(LocalStart(r))
        /\ WF_vars(\E opened \in BOOLEAN : ExtractFrames(r, opened))
        /\ WF_vars(AnalyzeQuery(r))
        /\ WF_vars(GenerateSummary(r))
        /\ WF_vars(\E fail \in ExportFailures, t \in 0..MaxClock : CreateExportBundle(r, fail, t))
        /\ WF_vars(Complete(r))
        /\ WF_vars(HandleError(r))

FairSpec == Spec /\ WorkerFairness

\* The inference call returns: with its answer, or by raising.
InferenceReturns(r) ==
    \/ \E raw \in EngineOutputs : AnalyzeFrame(r, FALSE, raw)
    \/ AnalyzeFrame(r, TRUE, "")

\* The same workers with an inference call that always returns.
ReturningSpec == FairSpec /\ \A r \in Runs : WF_vars(InferenceReturns(r))

\* C30: a session that enters processing eventually reaches completed or
\* failed: no session stays in processing forever while its worker is alive,
\* an inference call that never returns being cut off.
C30_ProcessingEnds ==
    \A s \in RecordedIds :
        (session[s].processing_status = "processing")
            ~> (session[s].processing_status \in {"completed", "failed"})

\* ------------------------------------------------ websocket_proxy: relay
\* The bidirectional relay of websocket_proxy, from the moment the client was
\* told "proxy.connected".  client_to_openai and openai_to_client are two
\* coroutines of one event loop, each taking one step per received event;
\* asyncio.gather waits for both.  A peer that closes puts its close event
\* behind the messages it sent before.

\* The messages each peer sends at most.
MaxRelayMessages == 2

\* The relay starts: both peers connected, both loops waiting.
Relaying ==
    [ NoRelay EXCEPT !.client = "open", !.upstream = "open",
                     !.c2u = "receiving", !.u2c = "receiving" ]

RelayInit ==
    /\ PipelineInit
    /\ LiveInit
    /\ SummaryIdle
    /\ SamplerIdle
    /\ StoreIdle
    /\ OriginIdle
    /\ BatchIdle
    /\ memo = NoTables
    /\ relay = Relaying

\* The browser sends a message.
ClientSend ==
    /\ relay.client = "open" /\ ~relay.returned
    /\ relay.client_sent < MaxRelayMessages
    /\ relay' = [relay EXCEPT !.from_client = Append(@, "data"), !.client_sent = @ + 1]
    /\ UNCHANGED << pipelineVars, liveVars, summaryVars, samplerVars, storeVars, textVars, historyVars, batchVars >>

\* The browser closes its socket.
ClientClose ==
    /\ relay.client = "open" /\ ~relay.returned
    /\ relay' = [relay EXCEPT !.client = "closed", !.from_client = Append(@, "close")]
    /\ UNCHANGED << pipelineVars, liveVars, summaryVars, samplerVars, storeVars, textVars, historyVars, batchVars >>

\* The upstream service sends a message.
UpstreamSend ==
    /\ relay.upstream = "open"
    /\ relay.upstream_sent < MaxRelayMessages
    /\ relay' = [relay EXCEPT !.from_upstream = Append(@, "data"), !.upstream_sent = @ + 1]
    /\ UNCHANGED << pipelineVars, liveVars, summaryVars, samplerVars, storeVars, textVars, historyVars, batchVars >>

\* The upstream service closes the connection.
UpstreamClose ==
    /\ relay.upstream = "open"
    /\ relay' = [relay EXCEPT !.upstream = "closed", !.from_upstream = Append(@, "close")]
    /\ UNCHANGED << pipelineVars, liveVars, summaryVars, samplerVars, storeVars, textVars, historyVars, batchVars >>

\* What one pass of a forwarding loop makes of the event it received: a
\* close event ends the loop (receive_text raises WebSocketDisconnect, the
\* async for stops), a message written to a closed peer raises inside the
\* try and ends the loop, any other message is forwarded.
AfterEvent(event, peer) == IF event = "close" \/ peer = "closed" THEN "done" ELSE "receiving"

\* client_to_openai: data = await client_ws.receive_text(); await openai_ws.send(data)
ClientToOpenai ==
    /\ relay.c2u = "receiving"
    /\ relay.from_client # <<>>
    /\ relay' = [relay EXCEPT !.from_client = Tail(@),
                              !.c2u = AfterEvent(Head(relay.from_client), relay.upstream)]
    /\ UNCHANGED << pipelineVars, liveVars, summaryVars, samplerVars, storeVars, textVars, historyVars, batchVars >>

\* openai_to_client: async for message in openai_ws: await client_ws.send_text(message)
OpenaiToClient ==
    /\ relay.u2c = "receiving"
    /\ relay.from_upstream # <<>>
    /\ relay' = [relay EXCEPT !.from_upstream = Tail(@),
                              !.u2c = AfterEvent(Head(relay.from_upstream), relay.client)]
    /\ UNCHANGED << pipelineVars, liveVars, summaryVars, samplerVars, storeVars, textVars, historyVars, batchVars >>

\* asyncio.gather returns once both loops ended; leaving the async with
\* closes the upstream connection, and the handler returns.
RelayReturn ==
    /\ relay.c2u = "done" /\ relay.u2c = "done"
    /\ ~relay.returned
    /\ relay' = [relay EXCEPT !.returned = TRUE, !.upstream = "closed"]
    /\ UNCHANGED << pipelineVars, liveVars, summaryVars, samplerVars, storeVars, textVars, historyVars, batchVars >>

RelayNext ==
    \/ ClientSend
    \/ ClientClose
    \/ UpstreamSend
    \/ UpstreamClose
    \/ ClientToOpenai
    \/ OpenaiToClient
    \/ RelayReturn

RelaySpec == RelayInit /\ [][RelayNext]_vars

\* The event loop runs every coroutine that can take a step; what the two
\* peers send, and when, is up to them.
RelayFairness ==
    /\ WF_vars(ClientToOpenai)
    /\ WF_vars(OpenaiToClient)
    /\ WF_vars(RelayReturn)

RelayFairSpec == RelaySpec /\ RelayFairness

\* C31: once either direction closes, both forwarding loops end and the
\* handler returns, with no further message from the other peer needed.
C31_RelayTearsDown ==
    (relay.client = "closed" \/ relay.upstream = "closed") ~> relay.returned

\* ------------------------------------------- analyze_frames_batch alone
\* The outer loop of VideoProcessor.analyze_frames_batch called with a
\* progress callback, on total_frames unanalyzed frames whose analyses all
\* succeed: one step per batch.  reported is what the callback was given.

BatchInit ==
    /\ PipelineInit
    /\ LiveInit
    /\ SummaryIdle
    /\ SamplerIdle
    /\ StoreIdle
    /\ OriginIdle
    /\ RelayIdle
    /\ memo = NoTables
    /\ \E n \in 0..MaxBatchFrames, bs \in BatchSizeEnv :
          batch = [NoBatch EXCEPT !.total = n, !.batch_size = bs, !.state = "loop"]

\* for i in range(0, total_frames, self.batch_size): the frames of the batch,
\* the commit, progress_callback(progress)
AnalyzeBatch ==
    /\ batch.state = "loop"
    /\ batch.i < batch.total
    /\ batch' = [batch EXCEPT !.i = @ + batch.batch_size,
                              !.reported = Append(@, BatchProgress(batch.i, batch.total))]
    /\ UNCHANGED << pipelineVars, liveVars, summaryVars, samplerVars, storeVars, textVars, historyVars, relayVars >>

\* The range is used up: analyze_frames_batch returns.
BatchReturn ==
    /\ batch.state = "loop"
    /\ batch.i >= batch.total
    /\ batch' = [batch EXCEPT !.state = "returned"]
    /\ UNCHANGED << pipelineVars, liveVars, summaryVars, samplerVars, storeVars, textVars, historyVars, relayVars >>

BatchNext ==
    \/ AnalyzeBatch
    \/ BatchReturn

BatchSpec == BatchInit /\ [][BatchNext]_vars

\* The frames analyzed once k batches are done.
ProcessedAfter(k) ==
    IF k * batch.batch_size < batch.total THEN k * batch.batch_size ELSE batch.total

\* C32: after each batch the progress reported is 30 + floor(50 x processed
\* / total), processed the frames analyzed so far in this invocation; every
\* value lies in 30..80 and the one after the last batch is 80.
C32_ProgressByProcessed ==
    /\ \A k \in 1..Len(batch.reported) :
          /\ batch.reported[k] = 30 + ((50 * ProcessedAfter(k)) \div batch.total)
          /\ batch.reported[k] \in 30..80
    /\ (batch.state = "returned" /\ batch.reported # <<>>)
          => batch.reported[Len(batch.reported)] = 80

\* What the code gives: the share of the frames analyzed before the batch.
ProgressBeforeBatch ==
    /\ \A k \in 1..Len(batch.reported) :
          /\ batch.reported[k] \in
                { 30 + ((50 * ProcessedAfter(k - 1)) \div batch.total) - d : d \in {0, 1} }
          /\ batch.reported[k] \in 30..79

\* ------------------------------------------------- claims: committed rows

\* A process_video run whose except block committed "failed" together with
\* the rows that were pending from the batch the error interrupted.
FailedPartWay(r) ==
    /\ run[r].kind = "process_video"
    /\ run[r].pc = "done"
    /\ run[r].handled
    /\ run[r].err \in {"InferenceError", "AttributeError"}
    /\ run[r].batch_size > 1

\* C33: in every committed database state, the one a Celery run leaves that
\* failed part-way through a batch and committed the failed status on the
\* same database session included, a frame has analyzed = true if and only
\* if exactly one Finding exists for it.
C33_AnalyzedIffOneFinding ==
    \A s \in RecordedIds :
        /\ \A k \in FrameIds(s) : frames[s][k].analyzed <=> Cardinality(AnalysesOf(s, k)) = 1
        /\ \A k \in 1..Len(analyses[s]) : analyses[s][k].frame_id \in FrameIds(s)

\* A run failed on the second frame of its batch; the Finding of the first
\* frame, pending until then, was committed by the except block.
C33_Witness ==
    \E r \in Runs :
        /\ FailedPartWay(r)
        /\ \A o \in Runs \ {r} : run[o].kind \in {"idle", "local"} /\ run[o].pc \in {"idle", "handler", "done"} /\ ~("analysis" \in run[o].stages)
        /\ Status(run[r].sid) = "failed"
        /\ Len(frames[run[r].sid]) = 2
        /\ AnalyzedFrames(run[r].sid) = {1}
        /\ Len(analyses[run[r].sid]) = 1

\* ------------------------------------------------ claims: the Celery run

\* The run's latest inference call returned a text _parse_analysis gives
\* None for (the AttributeError of parsed.get).
ParseFailed(r) ==
    /\ run[r].last.called
    /\ ~run[r].last.raised
    /\ At(memo.parsed, run[r].last.text).none

\* The run stopped on a progress update: the AttributeError is not the one
\* of the parse.
ProgressFailed(r) == run[r].err = "AttributeError" /\ ~ParseFailed(r)

\* C34: a process_video_task run in which sampling, analysis, summary
\* generation and export all succeed ends with the session completed at
\* progress 100 without being set to failed by the run, and each progress
\* update it issues through self._update_progress is written.
C34_CeleryRunCompletes ==
    \A r \in Runs :
        (/\ run[r].kind = "process_video"
         /\ analyses[run[r].sid] # <<>>
         /\ run[r].err \in {NONE, "AttributeError"}
         /\ ~ParseFailed(r))
        => /\ ~ProgressFailed(r)
           /\ ~run[r].handled
           /\ run[r].pc = "done" =>
                 /\ run[r].stages = Stages
                 /\ run[r].plog # <<>> /\ run[r].plog[Len(run[r].plog)] = 100

\* ------------------------------------------------ claims: the live session

\* C35: every session whose status is completed has exactly one Summary and
\* exactly one Finding per Frame, recorded or live, a live save that fails
\* after the session record was written included.
C35_CompletedIsWhole ==
    \A s \in SessionIds :
        (session[s].exists /\ session[s].processing_status = "completed")
        => /\ Len(summaries[s]) = 1
           /\ \A k \in FrameIds(s) : Cardinality(AnalysesOf(s, k)) = 1

\* C36: whenever the current live session identifier is none the live buffer
\* is empty: no entry is appended while no session is active.
C36_NoSessionNoBuffer == current_session_id = NONE => timeline = <<>>

\* -------------------------------------------- the live requests one by one
\* The live handlers with the moment each request arrived.  A snapshot
\* request arrives, its upload is awaited (img_bytes = await file.read()),
\* and the rest of the handler runs without interruption once the bytes are
\* there; the other handlers never wait.  Time is counted in calls of
\* start_live_session.

\* The snapshot requests waiting for their upload at most.
MaxWaiting == 2

\* The number of sessions started so far.
Epoch == Cardinality(uuids)

Without(q, k) == SubSeq(q, 1, k - 1) \o SubSeq(q, k + 1, Len(q))

\* A snapshot request arrives with an image taken by now.
SnapshotReceived ==
    /\ Len(origin.waiting) < MaxWaiting
    /\ origin' = [origin EXCEPT !.waiting = Append(@, Epoch)]
    /\ UNCHANGED << pipelineVars, liveVars, workVars >>

\* The upload of the k-th waiting request is there: snapshot runs to its end.
SnapshotRead(k, raw) ==
    /\ k \in 1..Len(origin.waiting)
    /\ Snapshot(raw)
    /\ origin' =
          [ waiting |-> Without(origin.waiting, k),
            frame |-> origin.waiting[k],
            entries |-> IF Len(timeline') > Len(timeline)
                        THEN Append(origin.entries, [ received |-> origin.waiting[k],
                                                      captured |-> origin.waiting[k] ])
                        ELSE origin.entries ]

\* clarify on the retained frame.
ClarifyAsked(raw) ==
    /\ Clarify(raw)
    /\ origin' = [origin EXCEPT !.entries =
                     Append(@, [ received |-> Epoch, captured |-> origin.frame ])]

\* start_live_session and clear_session empty the buffer.
Started(id) == StartLiveSession(id) /\ origin' = [origin EXCEPT !.entries = <<>>]

Cleared == ClearSession /\ origin' = [origin EXCEPT !.entries = <<>>]

RequestNext ==
    \/ \E id \in LiveIds : Started(id)
    \/ SnapshotReceived
    \/ \E k \in 1..MaxWaiting, raw \in EngineOutputs : SnapshotRead(k, raw)
    \/ \E raw \in ClarifyOutputs : ClarifyAsked(raw)
    \/ Cleared

RequestSpec == Init /\ [][RequestNext]_vars

\* The history follows the buffer entry by entry.
OriginFollowsBuffer == Len(origin.entries) = Len(timeline)

\* C37: every entry of the live buffer comes from a snapshot or clarify
\* request received after the most recent start, on an image taken after
\* that start: neither a snapshot in flight when start runs nor a clarify on
\* the frame retained from an earlier session appends to the new buffer.
C37_EntriesOfThisSession ==
    \A k \in 1..Len(origin.entries) :
        /\ origin.entries[k].received = Epoch
        /\ origin.entries[k].captured = Epoch

\* A snapshot that was in flight when start ran has appended its entry.
InFlightAppended ==
    \E k \in 1..Len(origin.entries) :
        origin.entries[k].received < Epoch /\ Len(timeline) = Len(origin.entries)

\* A clarify has appended an entry on a frame of an earlier session.
StaleFrameAppended ==
    \E k \in 1..Len(origin.entries) :
        origin.entries[k].received = Epoch /\ origin.entries[k].captured < Epoch

\* ----------------------------------------------- claims: the repeated save

\* What save_live_session writes to.
savedVars == << session, frames, analyses, summaries, bundles >>

\* C38: live save leaves the buffer and the current session identifier as
\* they are, and a save repeated without a start in between persists
\* nothing: no second Session, no further Frames, no second Summary for the
\* identifier.
C38_SaveOnce ==
    [][ /\ (savedVars' # savedVars \/ now' # now) =>
              /\ timeline' = timeline
              /\ current_session_id' = current_session_id
        /\ \A id \in LiveIds :
              (session[id].exists /\ current_session_id = id) => savedVars' = savedVars ]_vars

\* The session saved at tick 0 is still the current one and a later save
\* request was handled for it.
C38_Witness ==
    \E id \in LiveIds :
        /\ current_session_id = id
        /\ session[id].exists
        /\ timeline # <<>>
        /\ \E f \in bundles : f.name = LiveBundleName(id, 0) /\ f.export_generated_at = 0
        /\ Len(summaries[id]) = 1
        /\ now = 1

\* ------------------------------------------------- claims: the sampling step

\* C39: for every positive source rate and target rate, the target above the
\* source included, extract_frames computes a sampling interval of at least
\* 1 and runs to the end of the source without an arithmetic error.
C39_IntervalAtLeastOne ==
    (cap.fps > 0 /\ cap.target_fps > 0) =>
        /\ cap.state # "ZeroDivisionError"
        /\ cap.state \in {"loop", "returned"} => cap.frame_interval >= 1

\* ------------------------------------------- claims: nothing to summarise

\* Run r is at the summary stage and its session has no Finding.
SummaryOfNothing(r) == run[r].pc = "summary" /\ analyses[run[r].sid] = <<>>

\* Run r stopped at the summary stage for want of analyses.
StoppedAtSummary(r) ==
    /\ run[r].err = "ValueError"
    /\ "analysis" \in run[r].stages
    /\ ~("summary" \in run[r].stages)

\* C40: when a session has no Findings as generate_summary runs, the call
\* fails and creates no Summary, and the pipeline run ends with the session
\* failed, not completed.
C40_NothingToSummarise ==
    [][ \A r \in Runs :
          /\ (SummaryOfNothing(r) /\ run'[r] # run[r]) =>
                /\ summaries' = summaries
                /\ run'[r].pc = "handler"
                /\ run'[r].err # NONE
                /\ run[r].kind = "local" => run'[r].err = "ValueError"
          /\ (StoppedAtSummary(r) /\ run[r].pc = "handler" /\ run'[r] # run[r]) =>
                /\ run'[r].pc = "done"
                /\ session'[run[r].sid].processing_status = "failed"
                /\ summaries' = summaries ]_vars

\* The source of a local run yielded no frame; generate_summary raised, the
\* run is over and the session is failed, without a Summary.
C40_Witness ==
    \E r \in Runs :
        /\ run[r].kind = "local" /\ run[r].pc = "done"
        /\ StoppedAtSummary(r)
        /\ frames[run[r].sid] = <<>>
        /\ summaries[run[r].sid] = <<>>
        /\ Status(run[r].sid) = "failed"

====
